---- MODULE Spec2Model ----
(***************************************************************************)
(* A model of the XET reference implementation (reference-implementation/ *)
(* *.py): the Gearhash content-defined chunker, the hash core, the xorb    *)
(* container and its builder, and the upload session that ties them to the *)
(* CAS server.                                                             *)
(*                                                                         *)
(* Scaling.  The sizes of the protocol (8 KiB .. 128 KiB chunks, 64 MiB    *)
(* xorbs, 64-bit rolling hash, 24-bit size fields) are scaled down so that *)
(* every case of the code is reached on byte strings of a few bytes; the   *)
(* order MIN_CHUNK_SIZE < MAX_CHUNK_SIZE < U24_MOD < MAX_XORB_SIZE of the  *)
(* real constants is kept.  BLAKE3 is modelled as an injective function:   *)
(* a hash is the record of its key and its input.  lz4.frame is modelled   *)
(* by a lossless run-length codec.                                         *)
(***************************************************************************)
EXTENDS Integers, Sequences, FiniteSets, TLC

VARIABLES
    \* UploadSession (protocol.py)
    files,                  \* self.files: seq of FileUploadInfo
    enable_global_dedup,    \* self.enable_global_dedup
    dedup_cache,            \* self.dedup_cache._cache: chunk hash -> <<xorb hash, index>>
    local_chunk_locations,  \* self._local_chunk_locations: chunk hash -> ChunkLocation
    xorbs,                  \* self.xorbs: seq of XorbInfo
    pc,                     \* position of the session inside upload()
    all_chunks,             \* _perform_deduplication: the unique chunks, in order
    dedup_i,                \* _perform_deduplication: index of the next chunk
    upload_i,               \* upload(): index of the next xorb to POST
    shard,                  \* upload(): the shard built in step 5
    \* the CAS server, as the client sees it
    serverXorbs,            \* xorbs the server has acknowledged: xorb hash -> bytes
    serverShards,           \* shards the server has registered, in order
    \* the requests of the current session, in the order they were issued
    trace,
    session,                \* number of the current UploadSession
    \* the pure functions, each applied to a bounded input
    chunker,                \* chunk_data / chunk_stream on one input
    conv,                   \* hash_to_string / string_to_hash on one hash
    xorbio,                 \* XorbBuilder / serialize / deserialize / extract
    shardio,                \* ShardBuilder / serialize_shard_for_upload / deserialize_shard
    grouping,               \* byte_group_4 / byte_ungroup_4 on one input
    merkle,                 \* compute_merkle_root, level by level
    download,               \* DownloadSession.download on one reconstruction
    creator                 \* XorbCreator (file_to_xorb.py) over a sequence of files

sessionVars == <<files, enable_global_dedup, dedup_cache, local_chunk_locations,
                 xorbs, pc, all_chunks, dedup_i, upload_i, shard, serverXorbs,
                 serverShards, trace, session>>

vars == <<files, enable_global_dedup, dedup_cache, local_chunk_locations,
          xorbs, pc, all_chunks, dedup_i, upload_i, shard, serverXorbs,
          serverShards, trace, session, chunker, conv, xorbio,
          shardio, grouping, merkle, download, creator>>

\* the variables of the functions modelled after the upload session
auxVars == <<shardio, grouping, merkle, download, creator>>

(***************************************************************************)
(* Constants of constants.py, scaled.                                      *)
(***************************************************************************)
MIN_CHUNK_SIZE == 2

MAX_CHUNK_SIZE == 4

\* the rolling hash is HASH_BITS wide (64 in the code: & 0xFFFFFFFFFFFFFFFF)
HASH_WRAP == 2 ^ 8

\* MASK: the top bits of the rolling hash (the top 16 of 64 in the code)
MASK == 2 ^ 7 + 2 ^ 6

\* GEARHASH_TABLE, for the bytes of the model's alphabet
GEARHASH_TABLE == <<91, 198>>

Byte == 0 .. (Len(GEARHASH_TABLE) - 1)

MAX_XORB_CHUNKS == 2

MAX_XORB_SIZE == 22

\* the radix of one byte of a size field (256 in the code); a u24 holds
\* values below BYTE_RADIX^3
BYTE_RADIX == 2

U24_MOD == BYTE_RADIX * BYTE_RADIX * BYTE_RADIX

COMPRESSION_NONE == 0

COMPRESSION_LZ4 == 1

COMPRESSION_BYTE_GROUPING_4_LZ4 == 2

(***************************************************************************)
(* Helpers for Python's sequences (0-based slices, join, sum).             *)
(***************************************************************************)
Min(a, b) == IF a <= b THEN a ELSE b

\* data[a:b] for 0 <= a, Python semantics (clipped to the length)
Slice(s, a, b) ==
    LET e == Min(b, Len(s))
    IN  IF a >= e THEN <<>> ELSE [i \in 1 .. (e - a) |-> s[a + i]]

RECURSIVE Concat(_)
Concat(ss) == IF ss = <<>> THEN <<>> ELSE Head(ss) \o Concat(Tail(ss))

RECURSIVE Sum(_)
Sum(s) == IF s = <<>> THEN 0 ELSE Head(s) + Sum(Tail(s))

Range(s) == {s[i] : i \in 1 .. Len(s)}

RECURSIVE BitAnd(_, _)
BitAnd(a, b) ==
    IF a = 0 \/ b = 0 THEN 0
    ELSE (a % 2) * (b % 2) + 2 * BitAnd(a \div 2, b \div 2)

(***************************************************************************)
(* chunking.py                                                             *)
(***************************************************************************)
Chunk(data, offset, size) == [data |-> data, offset |-> offset, size |-> size]

\* h = ((h << 1) + GEARHASH_TABLE[b]) & 0xFFFFFFFFFFFFFFFF
GearStep(h, b) == (h * 2 + GEARHASH_TABLE[b + 1]) % HASH_WRAP

\* chunk_data with the forced boundary one byte late (> instead of >=)
RECURSIVE chunk_data_loop_late(_, _, _, _, _)
chunk_data_loop_late(data, i, h, start_offset, chunks) ==
    IF i >= Len(data)
    THEN IF start_offset < Len(data)
         THEN Append(chunks, Chunk(Slice(data, start_offset, Len(data)),
                                   start_offset, Len(data) - start_offset))
         ELSE chunks
    ELSE LET h1 == GearStep(h, data[i + 1])
             chunk_size == i - start_offset + 1
             emit == Append(chunks, Chunk(Slice(data, start_offset, i + 1),
                                          start_offset, chunk_size))
         IN  IF chunk_size < MIN_CHUNK_SIZE
             THEN chunk_data_loop_late(data, i + 1, h1, start_offset, chunks)
             ELSE IF chunk_size > MAX_CHUNK_SIZE
             THEN chunk_data_loop_late(data, i + 1, 0, i + 1, emit)
             ELSE IF BitAnd(h1, MASK) = 0
             THEN chunk_data_loop_late(data, i + 1, 0, i + 1, emit)
             ELSE chunk_data_loop_late(data, i + 1, h1, start_offset, chunks)

\* The body of chunk_data's loop from index i (0-based) on, then the final chunk.
RECURSIVE chunk_data_loop(_, _, _, _, _)
chunk_data_loop(data, i, h, start_offset, chunks) ==
    IF i >= Len(data)
    THEN IF start_offset < Len(data)
         THEN Append(chunks, Chunk(Slice(data, start_offset, Len(data)),
                                   start_offset, Len(data) - start_offset))
         ELSE chunks
    ELSE LET h1 == GearStep(h, data[i + 1])
             chunk_size == i - start_offset + 1
             emit == Append(chunks, Chunk(Slice(data, start_offset, i + 1),
                                          start_offset, chunk_size))
         IN  IF chunk_size < MIN_CHUNK_SIZE
             THEN chunk_data_loop(data, i + 1, h1, start_offset, chunks)
             ELSE IF chunk_size >= MAX_CHUNK_SIZE
             THEN chunk_data_loop(data, i + 1, 0, i + 1, emit)
             ELSE IF BitAnd(h1, MASK) = 0
             THEN chunk_data_loop(data, i + 1, 0, i + 1, emit)
             ELSE chunk_data_loop(data, i + 1, h1, start_offset, chunks)

chunk_data(data) ==
    IF Len(data) = 0 THEN <<>> ELSE chunk_data_loop(data, 0, 0, 0, <<>>)

\* chunk_stream that keeps the rolling hash across a boundary (h is not reset)
RECURSIVE chunk_stream_buffer_keeps_h(_, _)
chunk_stream_buffer_keeps_h(st, buffer) ==
    IF buffer = <<>> THEN st
    ELSE LET b == Head(buffer)
             h1 == GearStep(st.h, b)
             cur == Append(st.current_chunk, b)
             chunk_size == Len(cur)
             emit_chunk == IF chunk_size < MIN_CHUNK_SIZE THEN FALSE
                           ELSE IF chunk_size >= MAX_CHUNK_SIZE THEN TRUE
                           ELSE BitAnd(h1, MASK) = 0
             st1 == IF emit_chunk
                    THEN [h |-> h1,
                          current_chunk |-> <<>>,
                          global_offset |-> st.global_offset + 1,
                          chunk_start_offset |-> st.global_offset + 1,
                          yielded |-> Append(st.yielded,
                                       Chunk(cur, st.chunk_start_offset, chunk_size))]
                    ELSE [h |-> h1,
                          current_chunk |-> cur,
                          global_offset |-> st.global_offset + 1,
                          chunk_start_offset |-> st.chunk_start_offset,
                          yielded |-> st.yielded]
         IN  chunk_stream_buffer_keeps_h(st1, Tail(buffer))

\* chunk_stream's loop over one buffer: st is the generator's local state
\* [h, current_chunk, global_offset, chunk_start_offset, yielded].
RECURSIVE chunk_stream_buffer(_, _)
chunk_stream_buffer(st, buffer) ==
    IF buffer = <<>> THEN st
    ELSE LET b == Head(buffer)
             h1 == GearStep(st.h, b)
             cur == Append(st.current_chunk, b)
             chunk_size == Len(cur)
             emit_chunk == IF chunk_size < MIN_CHUNK_SIZE THEN FALSE
                           ELSE IF chunk_size >= MAX_CHUNK_SIZE THEN TRUE
                           ELSE BitAnd(h1, MASK) = 0
             st1 == IF emit_chunk
                    THEN [h |-> 0,
                          current_chunk |-> <<>>,
                          global_offset |-> st.global_offset + 1,
                          chunk_start_offset |-> st.global_offset + 1,
                          yielded |-> Append(st.yielded,
                                       Chunk(cur, st.chunk_start_offset, chunk_size))]
                    ELSE [h |-> h1,
                          current_chunk |-> cur,
                          global_offset |-> st.global_offset + 1,
                          chunk_start_offset |-> st.chunk_start_offset,
                          yielded |-> st.yielded]
         IN  chunk_stream_buffer(st1, Tail(buffer))

\* a final chunk yielded also when no data remains
chunk_stream_final_always(st) ==
    [st EXCEPT !.yielded = Append(st.yielded,
          Chunk(st.current_chunk, st.chunk_start_offset, Len(st.current_chunk))),
        !.current_chunk = <<>>]

\* after the read loop: the final chunk, if any data remains
chunk_stream_final(st) ==
    IF st.current_chunk # <<>>
    THEN [st EXCEPT !.yielded = Append(st.yielded,
              Chunk(st.current_chunk, st.chunk_start_offset, Len(st.current_chunk))),
            !.current_chunk = <<>>]
    ELSE st

(***************************************************************************)
(* hashing.py                                                              *)
(***************************************************************************)
MIN_CHILDREN == 2

MAX_CHILDREN == 9

MEAN_BRANCHING_FACTOR == 4

\* the four BLAKE3 keys of constants.py, by name
KeyCode(key) ==
    CASE key = "DATA_KEY" -> 1
      [] key = "INTERNAL_NODE_KEY" -> 2
      [] key = "ZERO_KEY" -> 3
      [] key = "VERIFICATION_KEY" -> 4
      [] OTHER -> 0

\* blake3.blake3(key=key).update(data).digest(): injective in (key, data)
blake3_keyed_hash(key, data) == [key |-> key, data |-> data]

\* bytes(32)
ZERO_HASH == [key |-> "bytes32", data |-> <<>>]

\* the bytes of a hash, where a hash is fed to a hash or written to a buffer:
\* an injective encoding of the record
HashBytes(h) == <<KeyCode(h.key), Len(h.data)>> \o h.data

compute_chunk_hash(chunk_bytes) == blake3_keyed_hash("DATA_KEY", chunk_bytes)

\* struct.unpack("<Q", h[24:32])[0]: the last 8 bytes of the digest as a
\* number; a fixed function of the digest, here a multiplicative fold of its
\* bytes (reduced modulo 2^12, so that it stays a machine integer)
RECURSIVE Fold(_, _)
Fold(acc, s) ==
    IF s = <<>> THEN acc ELSE Fold((acc * 89 + Head(s) + 18) % 4096, Tail(s))

hash_tail_u64(h) == Fold(KeyCode(h.key), h.data)

\* _next_merge_cut: first index i in MIN_CHILDREN-1 .. end-1 whose hash is
\* divisible by MEAN_BRANCHING_FACTOR
RECURSIVE next_merge_cut_scan(_, _, _)
next_merge_cut_scan(entries, i, end) ==
    IF i >= end THEN end
    ELSE IF hash_tail_u64(entries[i + 1].hash) % MEAN_BRANCHING_FACTOR = 0
         THEN i + 1
         ELSE next_merge_cut_scan(entries, i + 1, end)

\* a scan that starts at entry 0
next_merge_cut_from_0(entries) ==
    IF Len(entries) <= 2 THEN Len(entries)
    ELSE next_merge_cut_scan(entries, 0, Min(MAX_CHILDREN, Len(entries)))

next_merge_cut(entries) ==
    IF Len(entries) <= 2 THEN Len(entries)
    ELSE next_merge_cut_scan(entries, MIN_CHILDREN - 1,
                             Min(MAX_CHILDREN, Len(entries)))

\* a merge that gives the parent the size of its first child
merge_hash_sequence_first_size(entries) ==
    [hash |-> blake3_keyed_hash("INTERNAL_NODE_KEY",
                  Concat([i \in 1 .. Len(entries) |->
                            HashBytes(entries[i].hash) \o <<entries[i].size>>])),
     size |-> entries[1].size]

\* _merge_hash_sequence: the buffer "H0 : S0\nH1 : S1\n..." hashed with
\* INTERNAL_NODE_KEY; the size is the sum
merge_hash_sequence(entries) ==
    [hash |-> blake3_keyed_hash("INTERNAL_NODE_KEY",
                  Concat([i \in 1 .. Len(entries) |->
                            HashBytes(entries[i].hash) \o <<entries[i].size>>])),
     size |-> Sum([i \in 1 .. Len(entries) |-> entries[i].size])]

\* one level of compute_merkle_root: the inner while loop from read_idx on
RECURSIVE merkle_level(_, _, _)
merkle_level(hv, read_idx, new_hv) ==
    IF read_idx >= Len(hv) THEN new_hv
    ELSE LET cut_len == next_merge_cut(Slice(hv, read_idx, Len(hv)))
             merged == merge_hash_sequence(Slice(hv, read_idx, read_idx + cut_len))
         IN  merkle_level(hv, read_idx + cut_len, Append(new_hv, merged))

\* one level of compute_merkle_root: the cut_len of each pass of the inner loop
RECURSIVE merkle_level_cuts(_, _, _)
merkle_level_cuts(hv, read_idx, cuts) ==
    IF read_idx >= Len(hv) THEN cuts
    ELSE LET cut_len == next_merge_cut(Slice(hv, read_idx, Len(hv)))
         IN  merkle_level_cuts(hv, read_idx + cut_len, Append(cuts, cut_len))

RECURSIVE merkle_reduce(_)
merkle_reduce(hv) ==
    IF Len(hv) > 1 THEN merkle_reduce(merkle_level(hv, 0, <<>>)) ELSE hv[1].hash

compute_merkle_root(entries) ==
    IF Len(entries) = 0 THEN ZERO_HASH ELSE merkle_reduce(entries)

\* list(zip(chunk_hashes, chunk_sizes))
Zip(chunk_hashes, chunk_sizes) ==
    [i \in 1 .. Min(Len(chunk_hashes), Len(chunk_sizes)) |->
        [hash |-> chunk_hashes[i], size |-> chunk_sizes[i]]]

compute_xorb_hash(chunk_hashes, chunk_sizes) ==
    compute_merkle_root(Zip(chunk_hashes, chunk_sizes))

compute_file_hash(chunk_hashes, chunk_sizes) ==
    blake3_keyed_hash("ZERO_KEY",
        HashBytes(compute_merkle_root(Zip(chunk_hashes, chunk_sizes))))

compute_verification_hash(chunk_hashes, start_index, end_index) ==
    blake3_keyed_hash("VERIFICATION_KEY",
        Concat([i \in 1 .. (end_index - start_index) |->
                  HashBytes(chunk_hashes[start_index + i])]))

is_global_dedup_eligible(chunk_hash, is_first_chunk) ==
    IF is_first_chunk THEN TRUE ELSE hash_tail_u64(chunk_hash) % 1024 = 0

(***************************************************************************)
(* xorb.py                                                                 *)
(***************************************************************************)
\* a compressed_data that is None
None == <<-1>>

\* what a decoder returns in place of bytes when the library raises
DecodeError == <<-2>>

\* the bytes of data at the positions i with i % 4 = k, in order
Group4(data, k) ==
    LET n == (Len(data) - k + 3) \div 4
    IN  [j \in 1 .. n |-> data[4 * (j - 1) + k + 1]]

\* byte_group_4: the loop appending data[i] to groups[i % 4]
RECURSIVE byte_group_4_loop(_, _, _)
byte_group_4_loop(data, i, groups) ==
    IF i = Len(data) THEN groups
    ELSE byte_group_4_loop(data, i + 1,
             [groups EXCEPT ![(i % 4) + 1] = Append(@, data[i + 1])])

byte_group_4(data) ==
    LET groups == byte_group_4_loop(data, 0, <<<<>>, <<>>, <<>>, <<>>>>)
    IN  groups[1] \o groups[2] \o groups[3] \o groups[4]

\* group sizes that forget the remainder of the length
GroupSize_floor(n, i) == n \div 4

\* byte_ungroup_4
GroupSize(n, i) == (n \div 4) + (IF i < n % 4 THEN 1 ELSE 0)

GroupOffset(n, i) == Sum([k \in 1 .. i |-> GroupSize(n, k - 1)])

byte_ungroup_4(grouped_data, original_length) ==
    [i \in 1 .. original_length |->
        grouped_data[GroupOffset(original_length, (i - 1) % 4) + ((i - 1) \div 4) + 1]]

\* lz4.frame.compress: a lossless codec, here run-length pairs <<count, byte>>
RECURSIVE RunLength(_, _)
RunLength(s, b) ==
    IF s # <<>> /\ Head(s) = b THEN 1 + RunLength(Tail(s), b) ELSE 0

RECURSIVE lz4_compress(_)
lz4_compress(data) ==
    IF data = <<>> THEN <<>>
    ELSE LET n == RunLength(data, Head(data))
         IN  <<n, Head(data)>> \o lz4_compress(Slice(data, n, Len(data)))

\* lz4.frame.decompress; DecodeError on a frame that is cut short
RECURSIVE lz4_decompress(_)
lz4_decompress(frame) ==
    IF frame = <<>> THEN <<>>
    ELSE IF Len(frame) = 1 \/ frame[1] < 1 THEN DecodeError
    ELSE LET rest == lz4_decompress(Slice(frame, 2, Len(frame)))
         IN  IF rest = DecodeError THEN DecodeError
             ELSE [i \in 1 .. frame[1] |-> frame[2]] \o rest

\* compress_chunk: <<compressed_data, actual_compression_type>>
compress_chunk(data, compression_type) ==
    IF compression_type = COMPRESSION_NONE THEN <<data, COMPRESSION_NONE>>
    ELSE IF compression_type = COMPRESSION_LZ4
    THEN LET compressed == lz4_compress(data)
         IN  IF Len(compressed) >= Len(data) THEN <<data, COMPRESSION_NONE>>
             ELSE <<compressed, COMPRESSION_LZ4>>
    ELSE LET compressed == lz4_compress(byte_group_4(data))
         IN  IF Len(compressed) >= Len(data) THEN <<data, COMPRESSION_NONE>>
             ELSE <<compressed, COMPRESSION_BYTE_GROUPING_4_LZ4>>

decompress_chunk(compressed_data, compression_type, uncompressed_size) ==
    IF compression_type = COMPRESSION_NONE THEN compressed_data
    ELSE IF compression_type = COMPRESSION_LZ4 THEN lz4_decompress(compressed_data)
    ELSE IF compression_type = COMPRESSION_BYTE_GROUPING_4_LZ4
    THEN LET grouped == lz4_decompress(compressed_data)
         IN  IF grouped = DecodeError \/ Len(grouped) < uncompressed_size
             THEN DecodeError
             ELSE byte_ungroup_4(grouped, uncompressed_size)
    ELSE DecodeError

\* struct.pack("<I", value)[:3]: the three low bytes of value
encode_u24_le(value) ==
    <<value % BYTE_RADIX,
      (value \div BYTE_RADIX) % BYTE_RADIX,
      (value \div (BYTE_RADIX * BYTE_RADIX)) % BYTE_RADIX>>

\* struct.unpack("<I", data + b"\x00")[0]
decode_u24_le(data) ==
    data[1] + BYTE_RADIX * data[2] + BYTE_RADIX * BYTE_RADIX * data[3]

ChunkEntry(data, chunk_hash, compressed_data, compression_type) ==
    [data |-> data, chunk_hash |-> chunk_hash,
     compressed_data |-> compressed_data, compression_type |-> compression_type]

\* one record of serialize_xorb: the 8-byte header, then the payload
serialize_chunk(chunk, compression_type) ==
    LET c == IF chunk.compressed_data = None
             THEN compress_chunk(chunk.data, compression_type)
             ELSE <<chunk.compressed_data, chunk.compression_type>>
    IN  <<0>> \o encode_u24_le(Len(c[1])) \o <<c[2]>>
        \o encode_u24_le(Len(chunk.data)) \o c[1]

\* serialize_xorb: [error, bytes]
serialize_xorb(xorb_chunks, compression_type) ==
    IF Len(xorb_chunks) > MAX_XORB_CHUNKS
    THEN [error |-> "too many chunks", bytes |-> <<>>]
    ELSE LET result == Concat([i \in 1 .. Len(xorb_chunks) |->
                                 serialize_chunk(xorb_chunks[i], compression_type)])
         IN  IF Len(result) > MAX_XORB_SIZE
             THEN [error |-> "too large", bytes |-> <<>>]
             ELSE [error |-> "", bytes |-> result]

\* deserialize_xorb from offset on: [error, chunks]
RECURSIVE deserialize_xorb_loop(_, _, _)
deserialize_xorb_loop(data, offset, chunks) ==
    IF offset >= Len(data) THEN [error |-> "", chunks |-> chunks]
    ELSE IF offset + 8 > Len(data) THEN [error |-> "truncated header", chunks |-> <<>>]
    ELSE LET header == Slice(data, offset, offset + 8)
             version == header[1]
             compressed_size == decode_u24_le(Slice(header, 1, 4))
             compression_type == header[5]
             uncompressed_size == decode_u24_le(Slice(header, 5, 8))
             compressed_data == Slice(data, offset + 8, offset + 8 + compressed_size)
             chunk_bytes == decompress_chunk(compressed_data, compression_type,
                                             uncompressed_size)
         IN  IF version # 0 THEN [error |-> "unknown version", chunks |-> <<>>]
             ELSE IF offset + 8 + compressed_size > Len(data)
             THEN [error |-> "truncated chunk data", chunks |-> <<>>]
             ELSE IF chunk_bytes = DecodeError
             THEN [error |-> "decompress", chunks |-> <<>>]
             ELSE deserialize_xorb_loop(data, offset + 8 + compressed_size,
                      Append(chunks, ChunkEntry(chunk_bytes,
                                 compute_chunk_hash(chunk_bytes),
                                 compressed_data, compression_type)))

deserialize_xorb(data) == deserialize_xorb_loop(data, 0, <<>>)

\* extract_chunk_range from offset on: [error, chunks]
RECURSIVE extract_chunk_range_loop(_, _, _, _, _, _)
extract_chunk_range_loop(data, start_index, end_index, offset, chunk_index, chunks) ==
    IF ~(offset < Len(data) /\ chunk_index < end_index)
    THEN [error |-> "", chunks |-> chunks]
    ELSE IF offset + 8 > Len(data) THEN [error |-> "truncated header", chunks |-> <<>>]
    ELSE LET header == Slice(data, offset, offset + 8)
             version == header[1]
             compressed_size == decode_u24_le(Slice(header, 1, 4))
             compression_type == header[5]
             uncompressed_size == decode_u24_le(Slice(header, 5, 8))
             compressed_data == Slice(data, offset + 8, offset + 8 + compressed_size)
             chunk_bytes == decompress_chunk(compressed_data, compression_type,
                                             uncompressed_size)
         IN  IF version # 0 THEN [error |-> "unknown version", chunks |-> <<>>]
             ELSE IF chunk_index >= start_index /\ chunk_bytes = DecodeError
             THEN [error |-> "decompress", chunks |-> <<>>]
             ELSE extract_chunk_range_loop(data, start_index, end_index,
                      offset + 8 + compressed_size, chunk_index + 1,
                      IF chunk_index >= start_index
                      THEN Append(chunks, chunk_bytes) ELSE chunks)

extract_chunk_range(data, start_index, end_index) ==
    extract_chunk_range_loop(data, start_index, end_index, 0, 0, <<>>)

\* XorbBuilder: [chunks, current_size], with the constructor's defaults
\* max_size = MAX_XORB_SIZE, max_chunks = MAX_XORB_CHUNKS, compression LZ4
XorbBuilder == [chunks |-> <<>>, current_size |-> 0]

can_add(builder, chunk_bytes) ==
    IF Len(builder.chunks) >= MAX_XORB_CHUNKS THEN FALSE
    ELSE builder.current_size + (8 + Len(chunk_bytes)) <= MAX_XORB_SIZE

\* an add that counts the estimate 8 + len(chunk_data) instead of the stored payload
builder_add_estimate(builder, chunk_bytes, chunk_hash) ==
    IF ~can_add(builder, chunk_bytes) THEN builder
    ELSE LET c == compress_chunk(chunk_bytes, COMPRESSION_LZ4)
         IN  [chunks |-> Append(builder.chunks,
                                ChunkEntry(chunk_bytes, chunk_hash, c[1], c[2])),
              current_size |-> builder.current_size + 8 + Len(chunk_bytes)]

\* XorbBuilder.add: the builder after the call (unchanged when add returns False)
builder_add(builder, chunk_bytes, chunk_hash) ==
    IF ~can_add(builder, chunk_bytes) THEN builder
    ELSE LET c == compress_chunk(chunk_bytes, COMPRESSION_LZ4)
         IN  [chunks |-> Append(builder.chunks,
                                ChunkEntry(chunk_bytes, chunk_hash, c[1], c[2])),
              current_size |-> builder.current_size + 8 + Len(c[1])]

builder_is_empty(builder) == Len(builder.chunks) = 0

(***************************************************************************)
(* api.py: DeduplicationCache                                              *)
(***************************************************************************)
\* a dict with no entries
EmptyDict == <<>>

\* d[k] = v
DictSet(d, k, v) == (k :> v) @@ d

\* chunk_key=None, the default of add_from_shard
NoChunkKey == [key |-> "None", data |-> <<>>]

\* add_from_shard that caches only the first entry of each CAS block
RECURSIVE add_entries_first_only(_, _, _, _)
add_entries_first_only(cache, cas_hash, entries, i) ==
    IF i >= Len(entries) \/ i >= 1 THEN cache
    ELSE add_entries_first_only(
             DictSet(cache, entries[i + 1].chunk_hash, <<cas_hash, i>>),
             cas_hash, entries, i + 1)

\* the loop of add_from_shard over the entries of one CAS block, for a
\* chunk_key that is None or all-zero: every entry is cached, a later entry
\* replacing an earlier one
RECURSIVE add_entries(_, _, _, _)
add_entries(cache, cas_hash, entries, i) ==
    IF i >= Len(entries) THEN cache
    ELSE add_entries(DictSet(cache, entries[i + 1].chunk_hash, <<cas_hash, i>>),
                     cas_hash, entries, i + 1)

\* add_from_shard(shard, chunk_key): with a chunk_key that is neither None
\* nor all-zero no entry is cached; the footer of the shard is not read
RECURSIVE add_from_shard(_, _, _)
add_from_shard(cache, cas_blocks, chunk_key) ==
    IF cas_blocks = <<>> THEN cache
    ELSE IF chunk_key # NoChunkKey /\ chunk_key # ZERO_HASH THEN cache
    ELSE add_from_shard(add_entries(cache, Head(cas_blocks).cas_hash,
                                    Head(cas_blocks).entries, 0),
                        Tail(cas_blocks), chunk_key)

(***************************************************************************)
(* shard.py: ShardBuilder                                                  *)
(***************************************************************************)
\* bit 31 of a chunk entry's flags; flags are modelled as the set of their bits
CHUNK_FLAG_GLOBAL_DEDUP_ELIGIBLE == {31}

\* add_file(..., sha256_hash=None), and the metadata_ext = None it gives
NoSha256 == [key |-> "None", data |-> <<>>]

NoMetadataExt == [absent |-> TRUE]

ShardBuilder == [file_blocks |-> <<>>, cas_blocks |-> <<>>, cas_hashes |-> {}]

shard_add_file(sb, file_hash, terms, verification_hashes, sha256_hash) ==
    [sb EXCEPT !.file_blocks = Append(@,
        [file_hash |-> file_hash,
         entries |-> terms,
         verification_entries |->
            [i \in 1 .. Len(verification_hashes) |->
                [range_hash |-> verification_hashes[i]]],
         metadata_ext |-> IF sha256_hash = NoSha256 THEN NoMetadataExt
                          ELSE [sha256_hash |-> sha256_hash]])]

\* the entries of add_cas_block: chunk_byte_range_start is the running sum
\* add_cas_block that advances byte_offset before it builds the entry
cas_entries_offset_after(chunk_hashes, chunk_sizes, dedup_eligible) ==
    [i \in 1 .. Min(Len(chunk_hashes), Len(chunk_sizes)) |->
        [chunk_hash |-> chunk_hashes[i],
         chunk_byte_range_start |-> Sum(Slice(chunk_sizes, 0, i)),
         unpacked_segment_bytes |-> chunk_sizes[i],
         flags |-> IF dedup_eligible[i]
                   THEN CHUNK_FLAG_GLOBAL_DEDUP_ELIGIBLE ELSE {}]]

cas_entries(chunk_hashes, chunk_sizes, dedup_eligible) ==
    [i \in 1 .. Min(Len(chunk_hashes), Len(chunk_sizes)) |->
        [chunk_hash |-> chunk_hashes[i],
         chunk_byte_range_start |-> Sum(Slice(chunk_sizes, 0, i - 1)),
         unpacked_segment_bytes |-> chunk_sizes[i],
         flags |-> IF dedup_eligible[i]
                   THEN CHUNK_FLAG_GLOBAL_DEDUP_ELIGIBLE ELSE {}]]

shard_add_cas_block(sb, cas_hash, chunk_hashes, chunk_sizes, serialized_size, dedup_eligible) ==
    IF cas_hash \in sb.cas_hashes THEN sb
    ELSE [sb EXCEPT
            !.cas_hashes = @ \cup {cas_hash},
            !.cas_blocks = Append(@,
                [cas_hash |-> cas_hash,
                 cas_flags |-> 0,
                 entries |-> cas_entries(chunk_hashes, chunk_sizes, dedup_eligible),
                 num_bytes_in_cas |->
                    Sum(Slice(chunk_sizes, 0, Min(Len(chunk_hashes), Len(chunk_sizes)))),
                 num_bytes_on_disk |-> serialized_size])]

shard_build(sb) == [file_blocks |-> sb.file_blocks, cas_blocks |-> sb.cas_blocks]

(***************************************************************************)
(* protocol.py: UploadSession                                              *)
(***************************************************************************)
\* the files a session is given: chunks A B A (a chunk repeated after the
\* builder filled up) and A A C (a chunk repeated at once, and a chunk C that is
\* not eligible for a dedup query), with A = 00, B = 100, C = 11
FileData ==
    { <<0, 0, 1, 0, 0, 0, 0>>,
      <<0, 0, 0, 0, 1, 1>> }

MaxFiles == 2

MaxSessions == 2

\* hashlib.sha256(data).digest()
sha256(data) == [key |-> "sha256", data |-> data]

ChunkLocation(xorb_hash, chunk_index, size, is_new) ==
    [xorb_hash |-> xorb_hash, chunk_index |-> chunk_index,
     size |-> size, is_new |-> is_new]

\* the FileUploadInfo that add_file appends
FileUploadInfo(data) ==
    LET cs == chunk_data(data)
        chunks == [i \in 1 .. Len(cs) |->
                     [data |-> cs[i].data,
                      hash |-> compute_chunk_hash(cs[i].data),
                      size |-> cs[i].size,
                      file_index |-> i - 1,
                      is_first_chunk |-> (i - 1 = 0)]]
    IN  [data |-> data,
         chunks |-> chunks,
         file_hash |-> compute_file_hash([i \in 1 .. Len(chunks) |-> chunks[i].hash],
                                         [i \in 1 .. Len(chunks) |-> chunks[i].size]),
         sha256_hash |-> sha256(data)]

\* the chunks of all files, in file order then chunk order
AllFileChunks(fs) == Concat([k \in 1 .. Len(fs) |-> fs[k].chunks])

\* _perform_deduplication: the chunks with the first occurrence of each hash
RECURSIVE unique_chunks(_, _, _)
unique_chunks(chunks, seen_hashes, acc) ==
    IF chunks = <<>> THEN acc
    ELSE IF Head(chunks).hash \in seen_hashes
         THEN unique_chunks(Tail(chunks), seen_hashes, acc)
         ELSE unique_chunks(Tail(chunks), seen_hashes \cup {Head(chunks).hash},
                            Append(acc, Head(chunks)))

\* flush_builder of _form_xorbs, on st = [builder, xorbs, locs]
flush_builder(st) ==
    IF builder_is_empty(st.builder) THEN st
    ELSE LET chunks == st.builder.chunks
             serialized == serialize_xorb(chunks, COMPRESSION_LZ4).bytes
             chunk_hashes == [i \in 1 .. Len(chunks) |-> chunks[i].chunk_hash]
             chunk_sizes == [i \in 1 .. Len(chunks) |-> Len(chunks[i].data)]
             xorb_hash == compute_xorb_hash(chunk_hashes, chunk_sizes)
             newlocs == [h \in Range(chunk_hashes) |->
                           LET idx == CHOOSE i \in 1 .. Len(chunks) :
                                        /\ chunk_hashes[i] = h
                                        /\ \A j \in 1 .. Len(chunks) :
                                             chunk_hashes[j] = h => j <= i
                           IN  ChunkLocation(xorb_hash, idx - 1,
                                             Len(chunks[idx].data), TRUE)]
         IN  [builder |-> XorbBuilder,
              xorbs |-> Append(st.xorbs,
                               [xorb_hash |-> xorb_hash,
                                serialized_data |-> serialized,
                                chunk_hashes |-> chunk_hashes,
                                chunk_sizes |-> chunk_sizes]),
              locs |-> newlocs @@ st.locs]

\* _form_xorbs that packs a chunk without looking it up in the dedup cache
form_chunk_no_cache(st, cache, chunk) ==
    IF chunk.hash \in DOMAIN st.locs THEN st
    ELSE IF can_add(st.builder, chunk.data)
    THEN [st EXCEPT !.builder = builder_add(@, chunk.data, chunk.hash)]
    ELSE LET flushed == flush_builder(st)
         IN  [flushed EXCEPT !.builder = builder_add(@, chunk.data, chunk.hash)]

\* the body of _form_xorbs' loop for one chunk
form_chunk(st, cache, chunk) ==
    IF chunk.hash \in DOMAIN st.locs THEN st
    ELSE IF chunk.hash \in DOMAIN cache
    THEN [st EXCEPT !.locs = DictSet(@, chunk.hash,
              ChunkLocation(cache[chunk.hash][1], cache[chunk.hash][2],
                            chunk.size, FALSE))]
    ELSE IF can_add(st.builder, chunk.data)
    THEN [st EXCEPT !.builder = builder_add(@, chunk.data, chunk.hash)]
    ELSE LET flushed == flush_builder(st)
         IN  [flushed EXCEPT !.builder = builder_add(@, chunk.data, chunk.hash)]

RECURSIVE form_xorbs_loop(_, _, _)
form_xorbs_loop(st, cache, chunks) ==
    IF chunks = <<>> THEN flush_builder(st)
    ELSE form_xorbs_loop(form_chunk(st, cache, Head(chunks)), cache, Tail(chunks))

\* _form_xorbs: [builder, xorbs, locs] after the call
form_xorbs(fs, cache, xs, locs) ==
    form_xorbs_loop([builder |-> XorbBuilder, xorbs |-> xs, locs |-> locs],
                    cache, AllFileChunks(fs))

FileDataSequenceEntry(cas_hash, size, start, end) ==
    [cas_hash |-> cas_hash, cas_flags |-> 0, unpacked_segment_bytes |-> size,
     chunk_index_start |-> start, chunk_index_end |-> end]

\* _build_file_terms that extends the open term on the xorb alone, without
\* asking that the chunk index continues it
RECURSIVE build_file_terms_loop_any_index(_, _, _, _)
build_file_terms_loop_any_index(chunks, locs, cur, terms) ==
    IF chunks = <<>> THEN terms \o cur
    ELSE LET loc == locs[Head(chunks).hash]
             fresh == FileDataSequenceEntry(loc.xorb_hash, loc.size,
                                            loc.chunk_index, loc.chunk_index + 1)
         IN  IF cur = <<>>
             THEN build_file_terms_loop_any_index(Tail(chunks), locs, <<fresh>>, terms)
             ELSE IF loc.xorb_hash = cur[1].cas_hash
             THEN build_file_terms_loop_any_index(Tail(chunks), locs,
                      <<[cur[1] EXCEPT
                           !.chunk_index_end = loc.chunk_index + 1,
                           !.unpacked_segment_bytes = @ + loc.size]>>,
                      terms)
             ELSE build_file_terms_loop_any_index(Tail(chunks), locs, <<fresh>>,
                                                  terms \o cur)

\* _build_file_terms: cur is <<>> (current_xorb is None) or <<the open term>>
RECURSIVE build_file_terms_loop(_, _, _, _)
build_file_terms_loop(chunks, locs, cur, terms) ==
    IF chunks = <<>> THEN terms \o cur
    ELSE LET loc == locs[Head(chunks).hash]
             fresh == FileDataSequenceEntry(loc.xorb_hash, loc.size,
                                            loc.chunk_index, loc.chunk_index + 1)
         IN  IF cur = <<>>
             THEN build_file_terms_loop(Tail(chunks), locs, <<fresh>>, terms)
             ELSE IF loc.xorb_hash = cur[1].cas_hash
                     /\ loc.chunk_index = cur[1].chunk_index_end
             THEN build_file_terms_loop(Tail(chunks), locs,
                      <<[cur[1] EXCEPT
                           !.chunk_index_end = loc.chunk_index + 1,
                           !.unpacked_segment_bytes = @ + loc.size]>>,
                      terms)
             ELSE build_file_terms_loop(Tail(chunks), locs, <<fresh>>, terms \o cur)

build_file_terms(file_info, locs) ==
    build_file_terms_loop(file_info.chunks, locs, <<>>, <<>>)

\* _compute_verification_hashes
XorbWithHash(xs, h) == {i \in 1 .. Len(xs) : xs[i].xorb_hash = h}

\* xorb_chunks[term.cas_hash]: the dict keeps the last xorb with that hash
xorb_chunks_of(xs, h) ==
    xs[CHOOSE i \in XorbWithHash(xs, h) : \A j \in XorbWithHash(xs, h) : j <= i].chunk_hashes

\* file_chunk_map[(xorb_hash, idx)]: the last chunk of the file located there
file_chunk_at(file_info, locs, xorb_hash, idx) ==
    LET at == {i \in 1 .. Len(file_info.chunks) :
                  /\ locs[file_info.chunks[i].hash].xorb_hash = xorb_hash
                  /\ locs[file_info.chunks[i].hash].chunk_index = idx}
    IN  file_info.chunks[CHOOSE i \in at : \A j \in at : j <= i].hash

\* _compute_verification_hashes that reads a new xorb's hash list from its
\* first chunk instead of from the term's chunk_index_start
compute_verification_hashes_from_0(file_info, terms, xs, locs) ==
    [t \in 1 .. Len(terms) |->
        LET term == terms[t]
            chunk_hashes ==
                IF XorbWithHash(xs, term.cas_hash) # {}
                THEN Slice(xorb_chunks_of(xs, term.cas_hash),
                           0, term.chunk_index_end - term.chunk_index_start)
                ELSE [k \in 1 .. (term.chunk_index_end - term.chunk_index_start) |->
                        file_chunk_at(file_info, locs, term.cas_hash,
                                      term.chunk_index_start + k - 1)]
        IN  compute_verification_hash(chunk_hashes, 0, Len(chunk_hashes))]

compute_verification_hashes(file_info, terms, xs, locs) ==
    [t \in 1 .. Len(terms) |->
        LET term == terms[t]
            chunk_hashes ==
                IF XorbWithHash(xs, term.cas_hash) # {}
                THEN Slice(xorb_chunks_of(xs, term.cas_hash),
                           term.chunk_index_start, term.chunk_index_end)
                ELSE [k \in 1 .. (term.chunk_index_end - term.chunk_index_start) |->
                        file_chunk_at(file_info, locs, term.cas_hash,
                                      term.chunk_index_start + k - 1)]
        IN  compute_verification_hash(chunk_hashes, 0, Len(chunk_hashes))]

\* upload() step 5 that adds the file blocks from the last file to the first
RECURSIVE add_file_blocks_last_first(_, _, _, _)
add_file_blocks_last_first(sb, fs, xs, locs) ==
    IF fs = <<>> THEN sb
    ELSE LET f == fs[Len(fs)]
             terms == build_file_terms(f, locs)
             vh == compute_verification_hashes(f, terms, xs, locs)
         IN  add_file_blocks_last_first(
                 shard_add_file(sb, f.file_hash, terms, vh, f.sha256_hash),
                 SubSeq(fs, 1, Len(fs) - 1), xs, locs)

\* upload() step 5: the file blocks, then the CAS blocks of the new xorbs
RECURSIVE add_file_blocks(_, _, _, _)
add_file_blocks(sb, fs, xs, locs) ==
    IF fs = <<>> THEN sb
    ELSE LET terms == build_file_terms(Head(fs), locs)
             vh == compute_verification_hashes(Head(fs), terms, xs, locs)
         IN  add_file_blocks(
                 shard_add_file(sb, Head(fs).file_hash, terms, vh, Head(fs).sha256_hash),
                 Tail(fs), xs, locs)

RECURSIVE add_cas_blocks(_, _)
add_cas_blocks(sb, xs) ==
    IF xs = <<>> THEN sb
    ELSE LET x == Head(xs)
             dedup_eligible == [i \in 1 .. Len(x.chunk_hashes) |->
                                  is_global_dedup_eligible(x.chunk_hashes[i], i - 1 = 0)]
         IN  add_cas_blocks(
                 shard_add_cas_block(sb, x.xorb_hash, x.chunk_hashes, x.chunk_sizes,
                                     Len(x.serialized_data), dedup_eligible),
                 Tail(xs))

build_shard(fs, xs, locs) ==
    shard_build(add_cas_blocks(add_file_blocks(ShardBuilder, fs, xs, locs), xs))

(***************************************************************************)
(* The upload session as a state machine: add_file, then upload() step by  *)
(* step, one action per request to the server.                             *)
(***************************************************************************)
NoShard == [file_blocks |-> <<>>, cas_blocks |-> <<>>]

\* a request and its answer: the operation, the hash it names, the HTTP
\* status, and for a dedup hit the index of the shard that was served
Event(op, hash, status, served) ==
    [op |-> op, hash |-> hash, status |-> status, served |-> served]

ChunkerIdle == [pc |-> "idle"]

ConvIdle == [pc |-> "idle"]

XorbioIdle == [pc |-> "idle"]

\* the functions modelled after the upload session are not in use
AuxIdle ==
    /\ creator = [pc |-> "idle"]
    /\ shardio = [pc |-> "idle"]
    /\ grouping = [pc |-> "idle"]
    /\ merkle = [pc |-> "idle"]
    /\ download = [pc |-> "idle"]

\* UploadSession.__init__
SessionInit ==
    /\ files = <<>>
    /\ enable_global_dedup \in BOOLEAN
    /\ dedup_cache = EmptyDict
    /\ local_chunk_locations = EmptyDict
    /\ xorbs = <<>>
    /\ pc = "ingest"
    /\ all_chunks = <<>>
    /\ dedup_i = 0
    /\ upload_i = 0
    /\ shard = NoShard
    /\ trace = <<>>

Init ==
    /\ AuxIdle
    /\ SessionInit
    /\ serverXorbs = EmptyDict
    /\ serverShards = <<>>
    /\ session = 1
    /\ chunker = ChunkerIdle
    /\ conv = ConvIdle
    /\ xorbio = XorbioIdle

\* add_file(data)
AddFile(data) ==
    /\ pc = "ingest"
    /\ Len(files) < MaxFiles
    /\ files' = Append(files, FileUploadInfo(data))
    /\ UNCHANGED <<enable_global_dedup, dedup_cache, local_chunk_locations, xorbs,
                   pc, all_chunks, dedup_i, upload_i, shard, serverXorbs,
                   serverShards, trace, session, chunker, conv, xorbio, auxVars>>

\* upload() is called: _perform_deduplication collects the unique chunks
StartUpload ==
    /\ pc = "ingest"
    /\ pc' = "dedup"
    /\ all_chunks' = unique_chunks(AllFileChunks(files), {}, <<>>)
    /\ dedup_i' = 0
    /\ UNCHANGED <<files, enable_global_dedup, dedup_cache, local_chunk_locations,
                   xorbs, upload_i, shard, serverXorbs, serverShards, trace,
                   session, chunker, conv, xorbio, auxVars>>

\* whether the dedup loop queries the server for this chunk
dedup_queries(chunk) ==
    /\ chunk.hash \notin DOMAIN local_chunk_locations
    /\ enable_global_dedup
    /\ is_global_dedup_eligible(chunk.hash, chunk.is_first_chunk)

\* one iteration of the dedup loop that issues no query
DedupSkip ==
    /\ pc = "dedup"
    /\ dedup_i < Len(all_chunks)
    /\ ~dedup_queries(all_chunks[dedup_i + 1])
    /\ dedup_i' = dedup_i + 1
    /\ UNCHANGED <<files, enable_global_dedup, dedup_cache, local_chunk_locations,
                   xorbs, pc, all_chunks, upload_i, shard, serverXorbs,
                   serverShards, trace, session, chunker, conv, xorbio, auxVars>>

\* query_chunk_dedup answered 404: None, the loop goes on
DedupQueryNotFound ==
    /\ pc = "dedup"
    /\ dedup_i < Len(all_chunks)
    /\ dedup_queries(all_chunks[dedup_i + 1])
    /\ trace' = Append(trace, Event("query_chunk_dedup", all_chunks[dedup_i + 1].hash, 404, 0))
    /\ dedup_i' = dedup_i + 1
    /\ UNCHANGED <<files, enable_global_dedup, dedup_cache, local_chunk_locations,
                   xorbs, pc, all_chunks, upload_i, shard, serverXorbs,
                   serverShards, session, chunker, conv, xorbio, auxVars>>

\* query_chunk_dedup answered 200 with a shard the server holds
DedupQueryHit(s) ==
    /\ pc = "dedup"
    /\ dedup_i < Len(all_chunks)
    /\ dedup_queries(all_chunks[dedup_i + 1])
    /\ trace' = Append(trace, Event("query_chunk_dedup", all_chunks[dedup_i + 1].hash, 200, s))
    /\ dedup_cache' = add_from_shard(dedup_cache, serverShards[s].cas_blocks, NoChunkKey)
    /\ dedup_i' = dedup_i + 1
    /\ UNCHANGED <<files, enable_global_dedup, local_chunk_locations, xorbs, pc,
                   all_chunks, upload_i, shard, serverXorbs, serverShards,
                   session, chunker, conv, xorbio, auxVars>>

\* query_chunk_dedup answered another status: raise_for_status raises
\* the chunk hashes of a shard the server protects with a chunk_hash_key:
\* each entry carries the keyed hash of the chunk hash, and the footer
\* declares the key
ChunkHashKey == [key |-> "chunk_hash_key", data |-> <<1>>]

KeyedShard(sh) ==
    [file_blocks |-> <<>>,
     cas_blocks |->
        [b \in 1 .. Len(sh.cas_blocks) |->
            [sh.cas_blocks[b] EXCEPT !.entries =
                [k \in 1 .. Len(sh.cas_blocks[b].entries) |->
                    [sh.cas_blocks[b].entries[k] EXCEPT !.chunk_hash =
                        blake3_keyed_hash("chunk_hash_key", HashBytes(@))]]]],
     footer |-> [chunk_hash_key |-> ChunkHashKey]]

\* query_chunk_dedup returns a shard whose footer declares a non-zero
\* chunk_hash_key; the session hands it to add_from_shard without a chunk_key
DedupQueryHitKeyed(s) ==
    /\ pc = "dedup"
    /\ dedup_i < Len(all_chunks)
    /\ dedup_queries(all_chunks[dedup_i + 1])
    /\ trace' = Append(trace, Event("query_chunk_dedup", all_chunks[dedup_i + 1].hash, 200, s))
    /\ dedup_cache' = add_from_shard(dedup_cache, KeyedShard(serverShards[s]).cas_blocks,
                                     NoChunkKey)
    /\ dedup_i' = dedup_i + 1
    /\ UNCHANGED <<files, enable_global_dedup, local_chunk_locations, xorbs, pc,
                   all_chunks, upload_i, shard, serverXorbs, serverShards,
                   session, chunker, conv, xorbio, auxVars>>

DedupQueryError ==
    /\ pc = "dedup"
    /\ dedup_i < Len(all_chunks)
    /\ dedup_queries(all_chunks[dedup_i + 1])
    /\ trace' = Append(trace, Event("query_chunk_dedup", all_chunks[dedup_i + 1].hash, 500, 0))
    /\ pc' = "failed"
    /\ UNCHANGED <<files, enable_global_dedup, dedup_cache, local_chunk_locations,
                   xorbs, all_chunks, dedup_i, upload_i, shard, serverXorbs,
                   serverShards, session, chunker, conv, xorbio, auxVars>>

\* the dedup loop has ended: _form_xorbs
FormXorbs ==
    /\ pc = "dedup"
    /\ dedup_i = Len(all_chunks)
    /\ LET st == form_xorbs(files, dedup_cache, xorbs, local_chunk_locations)
       IN  /\ xorbs' = st.xorbs
           /\ local_chunk_locations' = st.locs
    /\ trace' = Append(trace, Event("form_xorbs", ZERO_HASH, 0, 0))
    /\ upload_i' = 0
    /\ pc' = "xorbs"
    /\ UNCHANGED <<files, enable_global_dedup, dedup_cache, all_chunks, dedup_i,
                   shard, serverXorbs, serverShards, session, chunker, conv, xorbio, auxVars>>

\* upload_xorb answered 2xx
UploadXorbOk ==
    /\ pc = "xorbs"
    /\ upload_i < Len(xorbs)
    /\ serverXorbs' = DictSet(serverXorbs, xorbs[upload_i + 1].xorb_hash,
                              xorbs[upload_i + 1].serialized_data)
    /\ trace' = Append(trace, Event("upload_xorb", xorbs[upload_i + 1].xorb_hash, 200, 0))
    /\ upload_i' = upload_i + 1
    /\ UNCHANGED <<files, enable_global_dedup, dedup_cache, local_chunk_locations,
                   xorbs, pc, all_chunks, dedup_i, shard, serverShards, session,
                   chunker, conv, xorbio, auxVars>>

\* an upload loop that swallows the error of a xorb POST and goes on
UploadXorbError_swallowed ==
    /\ pc = "xorbs"
    /\ upload_i < Len(xorbs)
    /\ trace' = Append(trace, Event("upload_xorb", xorbs[upload_i + 1].xorb_hash, 500, 0))
    /\ upload_i' = upload_i + 1
    /\ UNCHANGED <<files, enable_global_dedup, dedup_cache, local_chunk_locations,
                   xorbs, pc, all_chunks, dedup_i, shard, serverXorbs,
                   serverShards, session, chunker, conv, xorbio, auxVars>>

\* upload_xorb answered non-2xx: raise_for_status raises
UploadXorbError ==
    /\ pc = "xorbs"
    /\ upload_i < Len(xorbs)
    /\ trace' = Append(trace, Event("upload_xorb", xorbs[upload_i + 1].xorb_hash, 500, 0))
    /\ pc' = "failed"
    /\ UNCHANGED <<files, enable_global_dedup, dedup_cache, local_chunk_locations,
                   xorbs, all_chunks, dedup_i, upload_i, shard, serverXorbs,
                   serverShards, session, chunker, conv, xorbio, auxVars>>

\* an upload() that builds and posts the shard while xorbs are still to post
BuildShard_early ==
    /\ pc = "xorbs"
    /\ shard' = build_shard(files, xorbs, local_chunk_locations)
    /\ pc' = "shard"
    /\ UNCHANGED <<files, enable_global_dedup, dedup_cache, local_chunk_locations,
                   xorbs, all_chunks, dedup_i, upload_i, serverXorbs, serverShards,
                   trace, session, chunker, conv, xorbio, auxVars>>

\* upload() step 5: every xorb is posted, the shard is built
BuildShard ==
    /\ pc = "xorbs"
    /\ upload_i = Len(xorbs)
    /\ shard' = build_shard(files, xorbs, local_chunk_locations)
    /\ pc' = "shard"
    /\ UNCHANGED <<files, enable_global_dedup, dedup_cache, local_chunk_locations,
                   xorbs, all_chunks, dedup_i, upload_i, serverXorbs, serverShards,
                   trace, session, chunker, conv, xorbio, auxVars>>

\* upload_shard answered 2xx: upload() returns the file hashes
UploadShardOk ==
    /\ pc = "shard"
    /\ serverShards' = Append(serverShards, shard)
    /\ trace' = Append(trace, Event("upload_shard", ZERO_HASH, 200, 0))
    /\ pc' = "done"
    /\ UNCHANGED <<files, enable_global_dedup, dedup_cache, local_chunk_locations,
                   xorbs, all_chunks, dedup_i, upload_i, shard, serverXorbs,
                   session, chunker, conv, xorbio, auxVars>>

\* upload_shard answered non-2xx
UploadShardError ==
    /\ pc = "shard"
    /\ trace' = Append(trace, Event("upload_shard", ZERO_HASH, 500, 0))
    /\ pc' = "failed"
    /\ UNCHANGED <<files, enable_global_dedup, dedup_cache, local_chunk_locations,
                   xorbs, all_chunks, dedup_i, upload_i, shard, serverXorbs,
                   serverShards, session, chunker, conv, xorbio, auxVars>>

\* a fresh UploadSession against the same server
NewSession ==
    /\ pc \in {"done", "failed"}
    /\ session < MaxSessions
    /\ session' = session + 1
    /\ files' = <<>>
    /\ enable_global_dedup' \in BOOLEAN
    /\ dedup_cache' = EmptyDict
    /\ local_chunk_locations' = EmptyDict
    /\ xorbs' = <<>>
    /\ pc' = "ingest"
    /\ all_chunks' = <<>>
    /\ dedup_i' = 0
    /\ upload_i' = 0
    /\ shard' = NoShard
    /\ trace' = <<>>
    /\ UNCHANGED <<serverXorbs, serverShards, chunker, conv, xorbio, auxVars>>

Next ==
    \/ \E data \in FileData : AddFile(data)
    \/ StartUpload
    \/ DedupSkip
    \/ DedupQueryNotFound
    \/ \E s \in 1 .. Len(serverShards) : DedupQueryHit(s)
    \/ DedupQueryError
    \/ FormXorbs
    \/ UploadXorbOk
    \/ UploadXorbError
    \/ BuildShard
    \/ UploadShardOk
    \/ UploadShardError
    \/ NewSession

Spec == Init /\ [][Next]_vars

(***************************************************************************)
(* The chunker on one input: chunk_data applied to the whole input, and    *)
(* chunk_stream consuming it read by read.                                 *)
(***************************************************************************)
MaxDataLen == 8

MaxBufferSize == 3

ByteStrings(n) == UNION {[1 .. k -> Byte] : k \in 0 .. n}

\* an UploadSession that is never used
SessionUnused ==
    /\ SessionInit
    /\ enable_global_dedup = FALSE
    /\ serverXorbs = EmptyDict
    /\ serverShards = <<>>
    /\ session = 1

\* the locals of chunk_stream before its first read
StreamStart ==
    [h |-> 0, current_chunk |-> <<>>, global_offset |-> 0,
     chunk_start_offset |-> 0, yielded |-> <<>>]

InitChunk ==
    /\ AuxIdle
    /\ SessionUnused
    /\ conv = ConvIdle
    /\ xorbio = XorbioIdle
    /\ \E data \in ByteStrings(MaxDataLen), buffer_size \in 1 .. MaxBufferSize :
          chunker = [pc |-> "reading", data |-> data, buffer_size |-> buffer_size,
                     pos |-> 0, st |-> StreamStart,
                     batch |-> <<>>, batch_done |-> FALSE]

\* chunks = chunk_data(data)
ChunkData ==
    /\ chunker.pc # "idle"
    /\ ~chunker.batch_done
    /\ chunker' = [chunker EXCEPT !.batch = chunk_data(chunker.data),
                                  !.batch_done = TRUE]
    /\ UNCHANGED <<sessionVars, conv, xorbio, auxVars>>

\* stream.read(buffer_size) returns k bytes, 1 <= k <= buffer_size, and the
\* for loop of chunk_stream consumes them
StreamRead(k) ==
    /\ chunker.pc = "reading"
    /\ chunker.pos + k <= Len(chunker.data)
    /\ k <= chunker.buffer_size
    /\ chunker' = [chunker EXCEPT
          !.st = chunk_stream_buffer(chunker.st,
                     Slice(chunker.data, chunker.pos, chunker.pos + k)),
          !.pos = chunker.pos + k]
    /\ UNCHANGED <<sessionVars, conv, xorbio, auxVars>>

\* stream.read returns b"": the loop ends and the final chunk is yielded
StreamEnd ==
    /\ chunker.pc = "reading"
    /\ chunker.pos = Len(chunker.data)
    /\ chunker' = [chunker EXCEPT !.st = chunk_stream_final(chunker.st),
                                  !.pc = "done"]
    /\ UNCHANGED <<sessionVars, conv, xorbio, auxVars>>

NextChunk ==
    \/ ChunkData
    \/ \E k \in 1 .. MaxBufferSize : StreamRead(k)
    \/ StreamEnd

SpecChunk == InitChunk /\ [][NextChunk]_vars

(***************************************************************************)
(* Properties of the chunker.                                              *)
(***************************************************************************)
ChunkDatas(chunks) == [i \in 1 .. Len(chunks) |-> chunks[i].data]

\* C7: the chunks of chunk_data(d) concatenate to d with contiguous offsets
\* from 0, every chunk but the last has a length in [MIN_CHUNK_SIZE,
\* MAX_CHUNK_SIZE], no chunk is longer than MAX_CHUNK_SIZE, the empty input
\* gives no chunks, and a non-empty input shorter than MIN_CHUNK_SIZE gives
\* one chunk equal to the input.
C7_ChunkDataPartitions ==
    chunker.pc # "idle" /\ chunker.batch_done =>
        LET d == chunker.data
            cs == chunker.batch
        IN  /\ Concat(ChunkDatas(cs)) = d
            /\ \A i \in 1 .. Len(cs) :
                  /\ cs[i].size = Len(cs[i].data)
                  /\ cs[i].size >= 1
                  /\ cs[i].size <= MAX_CHUNK_SIZE
                  /\ cs[i].offset = Sum([j \in 1 .. (i - 1) |-> cs[j].size])
                  /\ i < Len(cs) => cs[i].size >= MIN_CHUNK_SIZE
            /\ Len(d) = 0 => cs = <<>>
            /\ (Len(d) > 0 /\ Len(d) < MIN_CHUNK_SIZE) =>
                  (Len(cs) = 1 /\ cs[1].data = d)

\* chunk_data has produced a natural boundary, a forced one and a short tail
C7_Witness ==
    /\ chunker.pc # "idle"
    /\ chunker.batch_done
    /\ Len(chunker.batch) >= 3
    /\ chunker.batch[1].size < MAX_CHUNK_SIZE
    /\ chunker.batch[2].size = MAX_CHUNK_SIZE
    /\ chunker.batch[Len(chunker.batch)].size < MIN_CHUNK_SIZE

\* C8: whatever the sizes of the reads, chunk_stream yields the chunks of
\* chunk_data on the whole input, with the same data, offset and size.
C8_StreamEqualsBatch ==
    chunker.pc = "done" => chunker.st.yielded = chunk_data(chunker.data)

\* the stream was read one byte at a time, so every chunk of two bytes or
\* more was split across reads, and several chunks were yielded
C8_Witness ==
    /\ chunker.pc = "done"
    /\ chunker.buffer_size = 1
    /\ Len(chunker.st.yielded) >= 3
    /\ chunker.st.yielded[2].size >= 3

(***************************************************************************)
(* hashing.py: hash_to_string / string_to_hash on 32-byte hashes.  A u64   *)
(* is held as four 16-bit limbs, least significant first.                  *)
(***************************************************************************)
HexChars == <<"0", "1", "2", "3", "4", "5", "6", "7",
              "8", "9", "a", "b", "c", "d", "e", "f">>

HexValue(c) == (CHOOSE n \in 1 .. 16 : HexChars[n] = c) - 1

\* struct.unpack(">Q", segment): the bytes read in the wrong order
unpack_u64_be(segment) ==
    [j \in 1 .. 4 |-> segment[10 - 2 * j] + 256 * segment[9 - 2 * j]]

\* struct.unpack("<Q", segment)[0]
unpack_u64_le(segment) ==
    [j \in 1 .. 4 |-> segment[2 * j - 1] + 256 * segment[2 * j]]

\* struct.pack("<Q", u64_val)
pack_u64_le(limbs) ==
    [i \in 1 .. 8 |-> IF i % 2 = 1 THEN limbs[(i + 1) \div 2] % 256
                      ELSE limbs[i \div 2] \div 256]

\* f"{u64_val:016x}"
format_016x(limbs) ==
    [n \in 1 .. 16 |->
        LET limb == limbs[4 - ((n - 1) \div 4)]
            shift == 3 - ((n - 1) % 4)
        IN  HexChars[((limb \div (16 ^ shift)) % 16) + 1]]

\* int(hex_string[start:end], 16)
parse_hex16(digits) ==
    [j \in 1 .. 4 |->
        LET at == 4 * (4 - j)
        IN  HexValue(digits[at + 1]) * 4096 + HexValue(digits[at + 2]) * 256
            + HexValue(digits[at + 3]) * 16 + HexValue(digits[at + 4])]

hash_to_string(hash_bytes) ==
    Concat([i \in 1 .. 4 |->
              format_016x(unpack_u64_le(Slice(hash_bytes, (i - 1) * 8, (i - 1) * 8 + 8)))])

string_to_hash(hex_string) ==
    Concat([i \in 1 .. 4 |->
              pack_u64_le(parse_hex16(Slice(hex_string, (i - 1) * 16, (i - 1) * 16 + 16)))])

\* the 8-byte groups the hashes of the model are made of
HashGroups ==
    { [i \in 1 .. 8 |-> 8 * k + i - 1] : k \in 0 .. 3 }
    \cup { <<255, 254, 128, 127, 16, 15, 1, 0>>,
           <<171, 205, 239, 1, 35, 69, 103, 137>> }

InitHash ==
    /\ AuxIdle
    /\ SessionUnused
    /\ chunker = ChunkerIdle
    /\ xorbio = XorbioIdle
    /\ \E g1 \in HashGroups, g2 \in HashGroups, g3 \in HashGroups, g4 \in HashGroups :
          conv = [pc |-> "hash", h |-> g1 \o g2 \o g3 \o g4, s |-> <<>>, back |-> <<>>]

\* s = hash_to_string(h)
HashToString ==
    /\ conv.pc = "hash"
    /\ conv' = [conv EXCEPT !.s = hash_to_string(conv.h), !.pc = "string"]
    /\ UNCHANGED <<sessionVars, chunker, xorbio, auxVars>>

\* back = string_to_hash(s)
StringToHash ==
    /\ conv.pc = "string"
    /\ conv' = [conv EXCEPT !.back = string_to_hash(conv.s), !.pc = "done"]
    /\ UNCHANGED <<sessionVars, chunker, xorbio, auxVars>>

NextHash == HashToString \/ StringToHash

SpecHash == InitHash /\ [][NextHash]_vars

\* the string written group by group, the bytes of the group in
\* reverse order, each as two lowercase hex digits
ReversedGroupsHex(h) ==
    [n \in 1 .. 64 |->
        LET g == (n - 1) \div 16
            k == ((n - 1) % 16) \div 2
            byte == h[8 * g + 8 - k]
        IN  HexChars[(IF n % 2 = 1 THEN byte \div 16 ELSE byte % 16) + 1]]

\* "07060504030201000f0e0d0c0b0a090817161514131211101f1e1d1c1b1a1918"
Vector0to31 ==
    <<"0","7","0","6","0","5","0","4","0","3","0","2","0","1","0","0",
      "0","f","0","e","0","d","0","c","0","b","0","a","0","9","0","8",
      "1","7","1","6","1","5","1","4","1","3","1","2","1","1","1","0",
      "1","f","1","e","1","d","1","c","1","b","1","a","1","9","1","8">>

\* C9: string_to_hash(hash_to_string(h)) = h, and hash_to_string(h) is the
\* 64-character lowercase string of the four 8-byte groups of h, each written
\* as the 16 hex digits of the group read as a little-endian u64; bytes 0..31
\* give the vector of the specification.
C9_HashStringRoundTrip ==
    /\ conv.pc \in {"string", "done"} =>
          /\ Len(conv.s) = 64
          /\ conv.s = ReversedGroupsHex(conv.h)
          /\ conv.h = [i \in 1 .. 32 |-> i - 1] => conv.s = Vector0to31
    /\ conv.pc = "done" => conv.back = conv.h

\* a hash with bytes above 0x7f and four different groups went both ways
C9_Witness ==
    /\ conv.pc = "done"
    /\ conv.h[1] = 171
    /\ conv.h[9] = 255
    /\ conv.h[17] = 0
    /\ conv.h[25] = 24
    /\ conv.back = conv.h

(***************************************************************************)
(* xorb.py: a XorbBuilder filled chunk by chunk, its xorb serialized, then *)
(* parsed back by deserialize_xorb and sliced by extract_chunk_range.      *)
(***************************************************************************)
\* the chunks handed to XorbBuilder.add: empty, short, compressible, and two
\* whose length does not fit the size field
ChunkPool ==
    { <<>>, <<0>>, <<0, 1>>, <<1, 0, 0>>, <<0, 0, 0, 0>>,
      <<0, 1, 0, 1, 0, 1, 0, 1>>, <<1, 1, 1, 1, 1, 1, 1, 1>> }

NoResult == [error |-> "not run", chunks |-> <<>>]

\* no add() since the builder was made or reset
NoAdd == [called |-> FALSE, chunk_data |-> <<>>, returned |-> FALSE, before |-> XorbBuilder]

\* the serialized bytes are handed to the parsers as they were written
NoDamage == [kind |-> "none", parser |-> "", at |-> 0]

InitXorb ==
    /\ AuxIdle
    /\ SessionUnused
    /\ chunker = ChunkerIdle
    /\ conv = ConvIdle
    /\ xorbio = [pc |-> "building", builder |-> XorbBuilder, last_add |-> NoAdd,
                 built |-> <<>>,
                 serialized |-> [error |-> "not run", bytes |-> <<>>],
                 deser |-> NoResult, range |-> <<0, 0>>, extracted |-> NoResult,
                 damage |-> NoDamage]

\* builder.add(chunk_data)
XbAdd(data) ==
    /\ xorbio.pc = "building"
    /\ xorbio' = [xorbio EXCEPT
          !.builder = builder_add(@, data, compute_chunk_hash(data)),
          !.last_add = [called |-> TRUE, chunk_data |-> data,
                        returned |-> can_add(xorbio.builder, data),
                        before |-> xorbio.builder]]
    /\ UNCHANGED <<sessionVars, chunker, conv, auxVars>>

\* builder.reset()
XbReset ==
    /\ xorbio.pc = "building"
    /\ ~builder_is_empty(xorbio.builder)
    /\ xorbio' = [xorbio EXCEPT !.builder = XorbBuilder, !.last_add = NoAdd]
    /\ UNCHANGED <<sessionVars, chunker, conv, auxVars>>

\* serialize_xorb(builder.build())
XbSerialize ==
    /\ xorbio.pc = "building"
    /\ xorbio' = [xorbio EXCEPT
          !.built = xorbio.builder.chunks,
          !.serialized = serialize_xorb(xorbio.builder.chunks, COMPRESSION_LZ4),
          !.pc = "serialized"]
    /\ UNCHANGED <<sessionVars, chunker, conv, auxVars>>

\* deserialize_xorb(serialized)
XbDeserialize ==
    /\ xorbio.pc = "serialized"
    /\ xorbio.serialized.error = ""
    /\ xorbio' = [xorbio EXCEPT
          !.deser = deserialize_xorb(xorbio.serialized.bytes),
          !.pc = "deserialized"]
    /\ UNCHANGED <<sessionVars, chunker, conv, auxVars>>

\* extract_chunk_range(serialized, a, b) for 0 <= a <= b <= number of chunks
XbExtract(a, b) ==
    /\ xorbio.pc \in {"serialized", "deserialized"}
    /\ xorbio.serialized.error = ""
    /\ a <= b
    /\ b <= Len(xorbio.built)
    /\ xorbio' = [xorbio EXCEPT
          !.range = <<a, b>>,
          !.extracted = extract_chunk_range(xorbio.serialized.bytes, a, b),
          !.pc = "extracted"]
    /\ UNCHANGED <<sessionVars, chunker, conv, auxVars>>

NextXorb ==
    \/ \E data \in ChunkPool : XbAdd(data)
    \/ XbReset
    \/ XbSerialize
    \/ XbDeserialize
    \/ \E a \in 0 .. MAX_XORB_CHUNKS, b \in 0 .. MAX_XORB_CHUNKS : XbExtract(a, b)

SpecXorb == InitXorb /\ [][NextXorb]_vars

\* C10: for every xorb built with XorbBuilder, deserialize_xorb(serialize_xorb(x))
\* has the same number of chunks with the same data in the same order, and
\* extract_chunk_range(serialize_xorb(x), a, b) is the data of chunks a..b-1.
C10_XorbRoundTrip ==
    /\ xorbio.pc # "idle" /\ xorbio.deser.error # "not run" =>
          /\ xorbio.deser.error = ""
          /\ Len(xorbio.deser.chunks) = Len(xorbio.built)
          /\ \A i \in 1 .. Len(xorbio.built) :
                xorbio.deser.chunks[i].data = xorbio.built[i].data
    /\ xorbio.pc = "extracted" =>
          /\ xorbio.extracted.error = ""
          /\ xorbio.extracted.chunks =
                [k \in 1 .. (xorbio.range[2] - xorbio.range[1]) |->
                    xorbio.built[xorbio.range[1] + k].data]

(***************************************************************************)
(* Properties of the upload session.                                       *)
(***************************************************************************)
\* the positions of the requests of one kind in the session's trace
Requests(op) == {i \in 1 .. Len(trace) : trace[i].op = op}

\* the position at which _form_xorbs returned (0: it has not)
PackedAt ==
    IF Requests("form_xorbs") = {} THEN 0
    ELSE CHOOSE i \in Requests("form_xorbs") : TRUE

\* C1: no xorb POST is issued before _form_xorbs has finished, no dedup query
\* is issued after packing has started, and the shard POST is issued only
\* after every xorb of session.xorbs has been posted and acknowledged.
C1_PhaseOrder ==
    /\ Cardinality(Requests("form_xorbs")) <= 1
    /\ \A i \in Requests("upload_xorb") : PackedAt # 0 /\ PackedAt < i
    /\ \A i \in Requests("query_chunk_dedup") : PackedAt = 0 \/ i < PackedAt
    /\ \A i \in Requests("upload_shard") :
          /\ PackedAt # 0 /\ PackedAt < i
          /\ \A x \in 1 .. Len(xorbs) :
                \E j \in Requests("upload_xorb") :
                    /\ j < i
                    /\ trace[j].hash = xorbs[x].xorb_hash
                    /\ trace[j].status = 200
    /\ pc \in {"ingest", "dedup"} => xorbs = <<>> /\ PackedAt = 0
    /\ pc \in {"shard", "done"} => upload_i = Len(xorbs)

\* a session that queried the server, packed two xorbs, posted both and then
\* posted its shard
C1_Witness ==
    /\ pc = "done"
    /\ Len(xorbs) >= 2
    /\ Requests("query_chunk_dedup") # {}
    /\ Requests("upload_shard") # {}

\* the chunk slots a term names: <<xorb hash, chunk index>>
TermSlots(term) ==
    [k \in 1 .. (term.chunk_index_end - term.chunk_index_start) |->
        <<term.cas_hash, term.chunk_index_start + k - 1>>]

FileBlockSlots(fb) == Concat([t \in 1 .. Len(fb.entries) |-> TermSlots(fb.entries[t])])

\* the CAS blocks known for a xorb: those of the session's shard and of the
\* shards the server holds
CasBlocksOf(h) ==
    {b \in Range(shard.cas_blocks) : b.cas_hash = h}
    \cup UNION {{b \in Range(serverShards[s].cas_blocks) : b.cas_hash = h} :
                  s \in 1 .. Len(serverShards)}

\* what the server holds in a slot: the chunks of the stored xorb
SlotFilled(slot) ==
    /\ slot[1] \in DOMAIN serverXorbs
    /\ CasBlocksOf(slot[1]) # {}
    /\ \A b \in CasBlocksOf(slot[1]) : slot[2] < Len(b.entries)
    /\ LET r == extract_chunk_range(serverXorbs[slot[1]], slot[2], slot[2] + 1)
       IN  r.error = "" /\ Len(r.chunks) = 1

SlotData(slot) == extract_chunk_range(serverXorbs[slot[1]], slot[2], slot[2] + 1).chunks[1]

SlotHashes(slot) == {b.entries[slot[2] + 1].chunk_hash : b \in CasBlocksOf(slot[1])}

\* C2: for every file of the session, the terms of its FileBlock, in order
\* and each expanded to its chunk slots, list exactly the file's chunk hashes
\* in source order, and the chunks in those slots concatenate to the file.
C2_TermsReconstructFile ==
    pc \in {"shard", "done"} =>
        /\ Len(shard.file_blocks) = Len(files)
        /\ \A k \in 1 .. Len(files) :
              LET fb == shard.file_blocks[k]
                  slots == FileBlockSlots(fb)
              IN  /\ fb.file_hash = files[k].file_hash
                  /\ Len(slots) = Len(files[k].chunks)
                  /\ \A i \in 1 .. Len(slots) :
                        /\ SlotFilled(slots[i])
                        /\ SlotHashes(slots[i]) = {files[k].chunks[i].hash}
                  /\ Concat([i \in 1 .. Len(slots) |-> SlotData(slots[i])])
                        = files[k].data

\* a second session whose file has a repeated chunk, is split over several
\* terms, and mixes chunks of the first session's xorbs with a new xorb
C2_Witness ==
    /\ pc = "done"
    /\ session = 2
    /\ xorbs # <<>>
    /\ \E h \in DOMAIN local_chunk_locations : ~local_chunk_locations[h].is_new
    /\ \E k \in 1 .. Len(files) :
          /\ Len(shard.file_blocks[k].entries) >= 2
          /\ \E i, j \in 1 .. Len(files[k].chunks) :
                i # j /\ files[k].chunks[i].hash = files[k].chunks[j].hash

\* C3: after the pack phase each chunk hash occurs in at most one of the
\* session's new xorbs.
C3_ChunkInOneXorb ==
    \A i, j \in 1 .. Len(xorbs) :
        i # j => Range(xorbs[i].chunk_hashes) \cap Range(xorbs[j].chunk_hashes) = {}

\* C4: within each CASBlock of the session's shard no two entries carry the
\* same chunk hash.
C4_CasBlockHashesDistinct ==
    \A b \in 1 .. Len(shard.cas_blocks) :
        \A i, j \in 1 .. Len(shard.cas_blocks[b].entries) :
            i # j => shard.cas_blocks[b].entries[i].chunk_hash
                        # shard.cas_blocks[b].entries[j].chunk_hash

\* the shard of a session that uploaded this file and packed it itself: it
\* holds the file's block and the CASBlock of every xorb its terms name
FirstUploadOf(s, file_info) ==
    \E fb \in Range(s.file_blocks) :
        /\ fb.file_hash = file_info.file_hash
        /\ \A t \in 1 .. Len(fb.entries) :
              \E b \in Range(s.cas_blocks) : b.cas_hash = fb.entries[t].cas_hash

\* the session is a second upload of its files: global dedup is on, and every
\* dedup query was answered with the shard of the files' first upload
ReUpload ==
    /\ enable_global_dedup
    /\ files # <<>>
    /\ PackedAt # 0
    /\ \A i \in Requests("query_chunk_dedup") :
          /\ trace[i].status = 200
          /\ \A k \in 1 .. Len(files) :
                FirstUploadOf(serverShards[trace[i].served], files[k])

\* C5: a fresh session that uploads again files of a first session, with
\* global dedup enabled and the endpoint serving the first session's
\* CASBlocks, forms no xorb, issues no xorb POST, and locates every chunk
\* with is_new = false.
C5_ReUploadFormsNoXorb ==
    ReUpload =>
        /\ xorbs = <<>>
        /\ Requests("upload_xorb") = {}
        /\ \A k \in 1 .. Len(files) : \A i \in 1 .. Len(files[k].chunks) :
              /\ files[k].chunks[i].hash \in DOMAIN local_chunk_locations
              /\ ~local_chunk_locations[files[k].chunks[i].hash].is_new

\* a finished re-upload of a file with a chunk that is not the first of the
\* file, after at least one query
C5_Witness ==
    /\ ReUpload
    /\ pc = "done"
    /\ session = 2
    /\ Requests("query_chunk_dedup") # {}
    /\ \E k \in 1 .. Len(files) : Len(files[k].chunks) >= 3

RECORD_SIZE == 5

\* a u32 word holds values below WORD_MOD (2^32 in the code)
WORD_MOD == 2 ^ 16

SHARD_HEADER_TAG == [key |-> "SHARD_HEADER_TAG", data |-> <<>>]

FILE_FLAG_WITH_VERIFICATION == {31}

FILE_FLAG_WITH_METADATA_EXT == {30}

BOOKEND_HASH == [key |-> "0xFF", data |-> <<>>]

\* the footer is parsed when footer_size >= 200 bytes: four records and a u64
FOOTER_MIN_SIZE == 4 * RECORD_SIZE + 2

NoFooter == [absent |-> TRUE]

write_u32(value) == <<value>>

write_u64(value) == <<value % WORD_MOD, value \div WORD_MOD>>

read_u32(data, offset) == data[offset + 1]

read_u64(data, offset) == data[offset + 1] + WORD_MOD * data[offset + 2]

serialize_shard_header(version, footer_size) ==
    <<SHARD_HEADER_TAG>> \o write_u64(version) \o write_u64(footer_size)

serialize_file_data_sequence_header(file_hash, num_entries, with_verification, with_metadata_ext) ==
    LET flags == (IF with_verification THEN FILE_FLAG_WITH_VERIFICATION ELSE {})
                 \cup (IF with_metadata_ext THEN FILE_FLAG_WITH_METADATA_EXT ELSE {})
    IN  <<file_hash>> \o write_u32(flags) \o write_u32(num_entries) \o <<0, 0>>

serialize_file_data_sequence_entry(entry) ==
    <<entry.cas_hash>> \o write_u32(entry.cas_flags)
        \o write_u32(entry.unpacked_segment_bytes)
        \o write_u32(entry.chunk_index_start) \o write_u32(entry.chunk_index_end)

serialize_file_verification_entry(entry) == <<entry.range_hash, 0, 0, 0, 0>>

serialize_file_metadata_ext(metadata) == <<metadata.sha256_hash, 0, 0, 0, 0>>

serialize_bookend == <<BOOKEND_HASH, 0, 0, 0, 0>>

serialize_cas_chunk_sequence_header(cas_hash, num_entries, num_bytes_in_cas, num_bytes_on_disk) ==
    <<cas_hash>> \o write_u32(0) \o write_u32(num_entries)
        \o write_u32(num_bytes_in_cas) \o write_u32(num_bytes_on_disk)

\* a CAS entry written with its size before its byte offset
serialize_cas_chunk_sequence_entry_swapped(entry) ==
    <<entry.chunk_hash>> \o write_u32(entry.unpacked_segment_bytes)
        \o write_u32(entry.chunk_byte_range_start) \o write_u32(entry.flags) \o <<0>>

serialize_cas_chunk_sequence_entry(entry) ==
    <<entry.chunk_hash>> \o write_u32(entry.chunk_byte_range_start)
        \o write_u32(entry.unpacked_segment_bytes) \o write_u32(entry.flags) \o <<0>>

\* serialize_shard_for_upload: one file block
serialize_file_block(fb) ==
    LET with_verification == Len(fb.verification_entries) > 0
        with_metadata_ext == fb.metadata_ext # NoMetadataExt
    IN  serialize_file_data_sequence_header(fb.file_hash, Len(fb.entries),
                                            with_verification, with_metadata_ext)
        \o Concat([i \in 1 .. Len(fb.entries) |->
                      serialize_file_data_sequence_entry(fb.entries[i])])
        \o (IF with_verification
            THEN Concat([i \in 1 .. Len(fb.verification_entries) |->
                      serialize_file_verification_entry(fb.verification_entries[i])])
            ELSE <<>>)
        \o (IF with_metadata_ext THEN serialize_file_metadata_ext(fb.metadata_ext)
            ELSE <<>>)

\* serialize_shard_for_upload: one CAS block
serialize_cas_block(cb) ==
    LET num_bytes_in_cas ==
            Sum([i \in 1 .. Len(cb.entries) |-> cb.entries[i].unpacked_segment_bytes])
    IN  serialize_cas_chunk_sequence_header(cb.cas_hash, Len(cb.entries),
                                            num_bytes_in_cas, cb.num_bytes_on_disk)
        \o Concat([i \in 1 .. Len(cb.entries) |->
                      serialize_cas_chunk_sequence_entry(cb.entries[i])])

serialize_shard_for_upload(s) ==
    serialize_shard_header(2, 0)
        \o Concat([i \in 1 .. Len(s.file_blocks) |-> serialize_file_block(s.file_blocks[i])])
        \o serialize_bookend
        \o Concat([i \in 1 .. Len(s.cas_blocks) |-> serialize_cas_block(s.cas_blocks[i])])
        \o serialize_bookend

\* deserialize_shard: the loops reading num_entries records; each returns
\* [error, offset, entries]
RECURSIVE read_file_entries(_, _, _, _)
read_file_entries(data, offset, n, entries) ==
    IF n = 0 THEN [error |-> "", offset |-> offset, entries |-> entries]
    ELSE IF offset + RECORD_SIZE > Len(data)
    THEN [error |-> "Truncated", offset |-> offset, entries |-> entries]
    ELSE read_file_entries(data, offset + RECORD_SIZE, n - 1,
             Append(entries,
                 [cas_hash |-> data[offset + 1],
                  cas_flags |-> read_u32(data, offset + 1),
                  unpacked_segment_bytes |-> read_u32(data, offset + 2),
                  chunk_index_start |-> read_u32(data, offset + 3),
                  chunk_index_end |-> read_u32(data, offset + 4)]))

RECURSIVE read_verification_entries(_, _, _, _)
read_verification_entries(data, offset, n, entries) ==
    IF n = 0 THEN [error |-> "", offset |-> offset, entries |-> entries]
    ELSE IF offset + RECORD_SIZE > Len(data)
    THEN [error |-> "Truncated", offset |-> offset, entries |-> entries]
    ELSE read_verification_entries(data, offset + RECORD_SIZE, n - 1,
             Append(entries, [range_hash |-> data[offset + 1]]))

RECURSIVE read_cas_entries(_, _, _, _)
read_cas_entries(data, offset, n, entries) ==
    IF n = 0 THEN [error |-> "", offset |-> offset, entries |-> entries]
    ELSE IF offset + RECORD_SIZE > Len(data)
    THEN [error |-> "Truncated", offset |-> offset, entries |-> entries]
    ELSE read_cas_entries(data, offset + RECORD_SIZE, n - 1,
             Append(entries,
                 [chunk_hash |-> data[offset + 1],
                  chunk_byte_range_start |-> read_u32(data, offset + 1),
                  unpacked_segment_bytes |-> read_u32(data, offset + 2),
                  flags |-> read_u32(data, offset + 3)]))

\* deserialize_shard: the file info section; [error, offset, file_blocks]
RECURSIVE parse_file_section(_, _, _)
parse_file_section(data, offset, file_blocks) ==
    IF ~(offset < Len(data))
    THEN [error |-> "", offset |-> offset, file_blocks |-> file_blocks]
    ELSE IF offset + RECORD_SIZE > Len(data)
    THEN [error |-> "Truncated", offset |-> offset, file_blocks |-> file_blocks]
    ELSE IF data[offset + 1] = BOOKEND_HASH
    THEN [error |-> "", offset |-> offset + RECORD_SIZE, file_blocks |-> file_blocks]
    ELSE LET file_hash == data[offset + 1]
             flags == read_u32(data, offset + 1)
             num_entries == read_u32(data, offset + 2)
             with_verification == flags \cap FILE_FLAG_WITH_VERIFICATION # {}
             with_metadata_ext == flags \cap FILE_FLAG_WITH_METADATA_EXT # {}
             es == read_file_entries(data, offset + RECORD_SIZE, num_entries, <<>>)
             vs == IF with_verification
                   THEN read_verification_entries(data, es.offset, num_entries, <<>>)
                   ELSE [error |-> "", offset |-> es.offset, entries |-> <<>>]
             meta_truncated == with_metadata_ext /\ vs.offset + RECORD_SIZE > Len(data)
             metadata_ext == IF with_metadata_ext
                             THEN [sha256_hash |-> data[vs.offset + 1]]
                             ELSE NoMetadataExt
             after == IF with_metadata_ext THEN vs.offset + RECORD_SIZE ELSE vs.offset
         IN  IF es.error # "" \/ vs.error # "" \/ meta_truncated
             THEN [error |-> "Truncated", offset |-> offset, file_blocks |-> file_blocks]
             ELSE parse_file_section(data, after,
                      Append(file_blocks,
                          [file_hash |-> file_hash,
                           entries |-> es.entries,
                           verification_entries |-> vs.entries,
                           metadata_ext |-> metadata_ext]))

\* deserialize_shard: the CAS info section; [error, offset, cas_blocks]
RECURSIVE parse_cas_section(_, _, _, _)
parse_cas_section(data, offset, footer_size, cas_blocks) ==
    IF ~(offset < Len(data))
    THEN [error |-> "", offset |-> offset, cas_blocks |-> cas_blocks]
    ELSE IF footer_size > 0 /\ offset >= Len(data) - footer_size
    THEN [error |-> "", offset |-> offset, cas_blocks |-> cas_blocks]
    ELSE IF offset + RECORD_SIZE > Len(data)
    THEN [error |-> "Truncated", offset |-> offset, cas_blocks |-> cas_blocks]
    ELSE IF data[offset + 1] = BOOKEND_HASH
    THEN [error |-> "", offset |-> offset + RECORD_SIZE, cas_blocks |-> cas_blocks]
    ELSE LET es == read_cas_entries(data, offset + RECORD_SIZE,
                                    read_u32(data, offset + 2), <<>>)
         IN  IF es.error # ""
             THEN [error |-> "Truncated", offset |-> offset, cas_blocks |-> cas_blocks]
             ELSE parse_cas_section(data, es.offset, footer_size,
                      Append(cas_blocks,
                          [cas_hash |-> data[offset + 1],
                           cas_flags |-> read_u32(data, offset + 1),
                           entries |-> es.entries,
                           num_bytes_in_cas |-> read_u32(data, offset + 3),
                           num_bytes_on_disk |-> read_u32(data, offset + 4)]))

EmptyShard == [file_blocks |-> <<>>, cas_blocks |-> <<>>, footer |-> NoFooter]

\* deserialize_shard: [error, shard]; error = "" when a Shard is returned
deserialize_shard(data) ==
    IF Len(data) < RECORD_SIZE THEN [error |-> "TooShort", shard |-> EmptyShard]
    ELSE IF data[1] # SHARD_HEADER_TAG THEN [error |-> "BadMagic", shard |-> EmptyShard]
    ELSE IF read_u64(data, 1) # 2
    THEN [error |-> "UnsupportedVersion", shard |-> EmptyShard]
    ELSE LET footer_size == read_u64(data, 3)
             fs == parse_file_section(data, RECORD_SIZE, <<>>)
             cs == parse_cas_section(data, fs.offset, footer_size, <<>>)
         IN  IF fs.error # "" THEN [error |-> fs.error, shard |-> EmptyShard]
             ELSE IF cs.error # "" THEN [error |-> cs.error, shard |-> EmptyShard]
             ELSE [error |-> "",
                   shard |-> [file_blocks |-> fs.file_blocks,
                              cas_blocks |-> cs.cas_blocks,
                              footer |-> IF footer_size > 0 /\ footer_size >= FOOTER_MIN_SIZE
                                         THEN [raw |-> Slice(data, Len(data) - footer_size,
                                                             Len(data))]
                                         ELSE NoFooter]]

(***************************************************************************)
(* shard.py: a ShardBuilder filled with files and CAS blocks, its shard    *)
(* serialized for upload, and the bytes (whole, cut short, or with another *)
(* tag or version) handed to deserialize_shard.                            *)
(***************************************************************************)
MaxShardBlocks == 2

ShardHashA == compute_chunk_hash(<<0>>)

ShardHashB == compute_chunk_hash(<<1>>)

\* the terms lists handed to add_file
ShardTerms ==
    { <<>>,
      <<FileDataSequenceEntry(ShardHashA, 3, 0, 2)>>,
      <<FileDataSequenceEntry(ShardHashA, 1, 1, 2),
        FileDataSequenceEntry(ShardHashB, 2, 0, 1)>> }

\* the chunk hashes and sizes handed to add_cas_block
ShardChunks ==
    { [hashes |-> <<>>, sizes |-> <<>>],
      [hashes |-> <<ShardHashA, ShardHashB>>, sizes |-> <<1, 2>>] }

InitShard ==
    /\ SessionUnused
    /\ chunker = ChunkerIdle
    /\ conv = ConvIdle
    /\ xorbio = XorbioIdle
    /\ creator = [pc |-> "idle"]
    /\ grouping = [pc |-> "idle"]
    /\ merkle = [pc |-> "idle"]
    /\ download = [pc |-> "idle"]
    /\ shardio = [pc |-> "building", builder |-> ShardBuilder,
                  built |-> shard_build(ShardBuilder), data |-> <<>>,
                  input |-> "none",
                  parsed |-> [error |-> "not run", shard |-> EmptyShard]]

ShardBlocks(sb) == Len(sb.file_blocks) + Len(sb.cas_blocks)

\* builder.add_file(file_hash, terms, verification_hashes, sha256_hash), the
\* verification hashes being none or one for each term
ShAddFile(file_hash, terms, with_verification, sha256_hash) ==
    /\ shardio.pc = "building"
    /\ ShardBlocks(shardio.builder) < MaxShardBlocks
    /\ shardio' = [shardio EXCEPT
          !.builder = shard_add_file(@, file_hash, terms,
                          IF with_verification
                          THEN [i \in 1 .. Len(terms) |->
                                   compute_verification_hash(<<terms[i].cas_hash>>, 0, 1)]
                          ELSE <<>>,
                          sha256_hash)]
    /\ UNCHANGED <<sessionVars, chunker, conv, xorbio, creator, grouping, merkle, download>>

\* builder.add_cas_block(cas_hash, chunk_hashes, chunk_sizes, serialized_size,
\* dedup_eligible)
ShAddCasBlock(cas_hash, chunks, first_eligible) ==
    /\ shardio.pc = "building"
    /\ ShardBlocks(shardio.builder) < MaxShardBlocks
    /\ shardio' = [shardio EXCEPT
          !.builder = shard_add_cas_block(@, cas_hash, chunks.hashes, chunks.sizes,
                          8 * Len(chunks.sizes) + Sum(chunks.sizes),
                          [i \in 1 .. Len(chunks.hashes) |-> first_eligible /\ i = 1])]
    /\ UNCHANGED <<sessionVars, chunker, conv, xorbio, creator, grouping, merkle, download>>

\* serialize_shard_for_upload(builder.build())
ShSerialize ==
    /\ shardio.pc = "building"
    /\ shardio' = [shardio EXCEPT
          !.built = shard_build(shardio.builder),
          !.data = serialize_shard_for_upload(shard_build(shardio.builder)),
          !.pc = "serialized"]
    /\ UNCHANGED <<sessionVars, chunker, conv, xorbio, creator, grouping, merkle, download>>

\* deserialize_shard(data)
ShDeserialize ==
    /\ shardio.pc = "serialized"
    /\ shardio' = [shardio EXCEPT
          !.input = "whole",
          !.parsed = deserialize_shard(shardio.data),
          !.pc = "parsed"]
    /\ UNCHANGED <<sessionVars, chunker, conv, xorbio, creator, grouping, merkle, download>>

\* deserialize_shard(data[:n]) for n < len(data)
ShDeserializeTruncated(n) ==
    /\ shardio.pc = "serialized"
    /\ n < Len(shardio.data)
    /\ shardio' = [shardio EXCEPT
          !.input = "truncated",
          !.data = Slice(shardio.data, 0, n),
          !.parsed = deserialize_shard(Slice(shardio.data, 0, n)),
          !.pc = "parsed"]
    /\ UNCHANGED <<sessionVars, chunker, conv, xorbio, creator, grouping, merkle, download>>

\* deserialize_shard of the data with another header tag
ShDeserializeBadTag ==
    /\ shardio.pc = "serialized"
    /\ shardio' = [shardio EXCEPT
          !.input = "bad tag",
          !.data = [shardio.data EXCEPT ![1] = BOOKEND_HASH],
          !.parsed = deserialize_shard([shardio.data EXCEPT ![1] = BOOKEND_HASH]),
          !.pc = "parsed"]
    /\ UNCHANGED <<sessionVars, chunker, conv, xorbio, creator, grouping, merkle, download>>

\* deserialize_shard of the data with another version
ShDeserializeBadVersion(version) ==
    /\ shardio.pc = "serialized"
    /\ version # 2
    /\ shardio' = [shardio EXCEPT
          !.input = "bad version",
          !.data = Slice(shardio.data, 0, 1) \o write_u64(version)
                       \o Slice(shardio.data, 3, Len(shardio.data)),
          !.parsed = deserialize_shard(Slice(shardio.data, 0, 1) \o write_u64(version)
                       \o Slice(shardio.data, 3, Len(shardio.data))),
          !.pc = "parsed"]
    /\ UNCHANGED <<sessionVars, chunker, conv, xorbio, creator, grouping, merkle, download>>

NextShard ==
    \/ \E file_hash \in {ShardHashB}, terms \in ShardTerms,
          with_verification \in BOOLEAN, sha256_hash \in {NoSha256, sha256(<<0>>)} :
          ShAddFile(file_hash, terms, with_verification, sha256_hash)
    \/ \E cas_hash \in {ShardHashA, ShardHashB}, chunks \in ShardChunks,
          first_eligible \in BOOLEAN :
          ShAddCasBlock(cas_hash, chunks, first_eligible)
    \/ ShSerialize
    \/ ShDeserialize
    \/ \E n \in 0 .. (RECORD_SIZE * (2 + 7 * (MaxShardBlocks + 1))) :
          ShDeserializeTruncated(n)
    \/ ShDeserializeBadTag
    \/ \E version \in {0, 1, 3, WORD_MOD + 2} : ShDeserializeBadVersion(version)

SpecShard == InitShard /\ [][NextShard]_vars

\* C11: a shard built with ShardBuilder, serialized for upload and parsed by
\* deserialize_shard comes back with the same file blocks and the same CAS
\* blocks, field for field and in order, and with no footer
C11_ShardRoundTrip ==
    (shardio.pc = "parsed" /\ shardio.input = "whole") =>
        /\ shardio.parsed.error = ""
        /\ shardio.parsed.shard.file_blocks = shardio.built.file_blocks
        /\ shardio.parsed.shard.cas_blocks = shardio.built.cas_blocks
        /\ shardio.parsed.shard.footer = NoFooter

\* a file with two terms, verification hashes and a SHA-256, and a CAS block
\* with a dedup-eligible chunk, came back from the bytes
C11_Witness ==
    /\ shardio.pc = "parsed"
    /\ shardio.input = "whole"
    /\ Len(shardio.built.file_blocks) = 1
    /\ Len(shardio.built.file_blocks[1].entries) = 2
    /\ Len(shardio.built.file_blocks[1].verification_entries) = 2
    /\ shardio.built.file_blocks[1].metadata_ext # NoMetadataExt
    /\ Len(shardio.built.cas_blocks) = 1
    /\ Len(shardio.built.cas_blocks[1].entries) = 2
    /\ shardio.built.cas_blocks[1].entries[1].flags = CHUNK_FLAG_GLOBAL_DEDUP_ELIGIBLE
    /\ shardio.parsed.shard.file_blocks = shardio.built.file_blocks
    /\ shardio.parsed.shard.cas_blocks = shardio.built.cas_blocks

\* C12: deserialize_shard returns no shard for an input with another tag, with
\* another version, or cut short of the bookend that closes the CAS section:
\* it fails with the bad-magic, unsupported-version or truncation error
C12_MalformedShardRejected ==
    shardio.pc = "parsed" =>
        /\ shardio.input = "bad tag" => shardio.parsed.error = "BadMagic"
        /\ shardio.input = "bad version" => shardio.parsed.error = "UnsupportedVersion"
        /\ shardio.input = "truncated" => shardio.parsed.error \in {"TooShort", "Truncated"}

(***************************************************************************)
(* xorb.py: byte_group_4 applied to a byte string, and byte_ungroup_4      *)
(* applied to the result with the original length.                         *)
(***************************************************************************)
MaxGroupLen == 9

GroupInputs == UNION { [1 .. n -> 0 .. (BYTE_RADIX - 1)] : n \in 0 .. MaxGroupLen }

InitGroup ==
    /\ SessionUnused
    /\ chunker = ChunkerIdle
    /\ conv = ConvIdle
    /\ xorbio = XorbioIdle
    /\ creator = [pc |-> "idle"]
    /\ shardio = [pc |-> "idle"]
    /\ merkle = [pc |-> "idle"]
    /\ download = [pc |-> "idle"]
    /\ \E d \in GroupInputs :
          grouping = [pc |-> "data", d |-> d, grouped |-> <<>>, back |-> <<>>]

\* grouped = byte_group_4(d)
GrGroup ==
    /\ grouping.pc = "data"
    /\ grouping' = [grouping EXCEPT !.grouped = byte_group_4(grouping.d), !.pc = "grouped"]
    /\ UNCHANGED <<sessionVars, chunker, conv, xorbio, creator, shardio, merkle, download>>

\* back = byte_ungroup_4(grouped, len(d))
GrUngroup ==
    /\ grouping.pc = "grouped"
    /\ grouping' = [grouping EXCEPT
          !.back = byte_ungroup_4(grouping.grouped, Len(grouping.d)),
          !.pc = "done"]
    /\ UNCHANGED <<sessionVars, chunker, conv, xorbio, creator, shardio, merkle, download>>

NextGroup == GrGroup \/ GrUngroup

SpecGroup == InitGroup /\ [][NextGroup]_vars

\* C13: byte_group_4(d) is the bytes at positions 0 mod 4, then those at 1 mod 4,
\* 2 mod 4 and 3 mod 4, each in order, and byte_ungroup_4 of it with len(d)
\* gives d back
C13_GroupRoundTrip ==
    /\ grouping.pc \in {"grouped", "done"} =>
          grouping.grouped = Group4(grouping.d, 0) \o Group4(grouping.d, 1)
                                 \o Group4(grouping.d, 2) \o Group4(grouping.d, 3)
    /\ grouping.pc = "done" => grouping.back = grouping.d

\* a string of two full groups and one byte more, moved by the grouping, came back
C13_Witness ==
    /\ grouping.pc = "done"
    /\ Len(grouping.d) = 9
    /\ grouping.grouped # grouping.d
    /\ grouping.d[9] # grouping.d[8]
    /\ grouping.back = grouping.d

(***************************************************************************)
(* protocol.py: DownloadSession.download against a server that answers the *)
(* reconstruction query with terms, one FetchInfo for each xorb and an     *)
(* offset into the first range, and serves the records of the fetch range. *)
(***************************************************************************)
MaxDlTerms == 2

MaxDlOffset == 3

\* the chunks of the xorbs the server stores
DlStore ==
    (ShardHashA :> << <<0>>, <<1>>, <<0, 1>> >>) @@ (ShardHashB :> << <<1, 1>>, <<0, 0>> >>)

ChunkRange(start, end) == [start |-> start, end |-> end]

\* the terms a response can hold: a non-empty chunk range of a stored xorb
DlRanges(h) ==
    { ChunkRange(a, b) : a \in 0 .. (Len(DlStore[h]) - 1), b \in 1 .. Len(DlStore[h]) }

DlTerms ==
    UNION { { [xorb_hash |-> h, chunk_range |-> r] : r \in {x \in DlRanges(h) : x.start < x.end} } :
            h \in DOMAIN DlStore }

\* fetch_info: the FetchInfos of each xorb, each named by its chunk range
MaxFetchInfos == 2

\* the FetchInfo lists of one xorb: non-empty ranges, each starting at the
\* chunk where the one before it ends
DlFetchLists(h) ==
    { fis \in UNION { [1 .. n -> DlRanges(h)] : n \in 1 .. MaxFetchInfos } :
        /\ \A i \in 1 .. Len(fis) : fis[i].start < fis[i].end
        /\ \A i \in 1 .. Len(fis) - 1 : fis[i + 1].start = fis[i].end }

DlFetchInfos ==
    { f \in [DOMAIN DlStore -> UNION {DlFetchLists(h) : h \in DOMAIN DlStore}] :
        \A h \in DOMAIN DlStore : f[h] \in DlFetchLists(h) }

DlTermLists == UNION { [1 .. n -> DlTerms] : n \in 1 .. MaxDlTerms }

\* byte_range of download(): None, or (start, end) with end inclusive
NoRange == <<>>

DlByteRanges == { NoRange, <<0, 0>>, <<0, 2>>, <<1, 3>> }

\* the bytes a FetchInfo delivers: the records of the chunks [start, end)
FetchedBytes(xorb_hash, chunk_range) ==
    Concat([i \in 1 .. (chunk_range.end - chunk_range.start) |->
              serialize_chunk(
                  ChunkEntry(DlStore[xorb_hash][chunk_range.start + i],
                             compute_chunk_hash(DlStore[xorb_hash][chunk_range.start + i]),
                             None, COMPRESSION_NONE),
                  COMPRESSION_LZ4)])

\* every term lies inside its xorb and inside the fetch range of its xorb; the
\* fetch range of a xorb without a term is the whole xorb
WellFormedResponse(terms, fetch) ==
    /\ \A i \in 1 .. Len(terms) :
          /\ terms[i].chunk_range.start < terms[i].chunk_range.end
          /\ fetch[terms[i].xorb_hash][1].start <= terms[i].chunk_range.start
          /\ terms[i].chunk_range.end
                <= fetch[terms[i].xorb_hash][Len(fetch[terms[i].xorb_hash])].end
    /\ \A h \in DOMAIN DlStore :
          /\ fetch[h] \in DlFetchLists(h)
          /\ (\A i \in 1 .. Len(terms) : terms[i].xorb_hash # h) =>
                fetch[h] = <<ChunkRange(0, Len(DlStore[h]))>>

InitDownload ==
    /\ SessionUnused
    /\ chunker = ChunkerIdle
    /\ conv = ConvIdle
    /\ xorbio = XorbioIdle
    /\ creator = [pc |-> "idle"]
    /\ shardio = [pc |-> "idle"]
    /\ grouping = [pc |-> "idle"]
    /\ merkle = [pc |-> "idle"]
    /\ download = [pc |-> "start", byte_range |-> NoRange, terms |-> <<>>,
                   fetch_info |-> <<>>, offset_into_first_range |-> 0,
                   xorb_data |-> <<>>, taken |-> <<>>, error |-> "", result |-> <<>>]

\* download() step 1: recon = client.get_reconstruction(file_hash, byte_range)
DlQuery(byte_range, terms, fetch, offset) ==
    /\ download.pc = "start"
    /\ WellFormedResponse(terms, fetch)
    /\ download' = [download EXCEPT
          !.byte_range = byte_range,
          !.terms = terms,
          !.fetch_info = fetch,
          !.offset_into_first_range = offset,
          !.pc = "queried"]
    /\ UNCHANGED <<sessionVars, chunker, conv, xorbio, creator, shardio, grouping, merkle>>

\* download() step 2: xorb_data[xorb_hash] = download_xorb_range(fi.url,
\* fi.url_range) for the FetchInfo of every xorb that a term names
\* the loop of step 2 over the FetchInfos of one xorb: the first range is
\* stored, and every later range is stored in its place
RECURSIVE fetch_xorb_ranges(_, _, _)
fetch_xorb_ranges(xorb_hash, fetch_infos, data) ==
    IF fetch_infos = <<>> THEN data
    ELSE fetch_xorb_ranges(xorb_hash, Tail(fetch_infos),
                           FetchedBytes(xorb_hash, Head(fetch_infos)))

DlFetch ==
    /\ download.pc = "queried"
    /\ download' = [download EXCEPT
          !.xorb_data =
              [h \in {download.terms[i].xorb_hash : i \in 1 .. Len(download.terms)} |->
                  fetch_xorb_ranges(h, download.fetch_info[h], <<>>)],
          !.pc = "fetched"]
    /\ UNCHANGED <<sessionVars, chunker, conv, xorbio, creator, shardio, grouping, merkle>>

\* download() step 3, the chunks of one term:
\* extract_chunk_range(xorb_data[term.xorb_hash], term.start, term.end)
term_chunks(xorb_data, term) ==
    extract_chunk_range(xorb_data[term.xorb_hash],
                        term.chunk_range.start, term.chunk_range.end)

\* download() step 3 and the truncation, from the chunks of every term
assemble(taken, offset_into_first_range, byte_range) ==
    LET result ==
            Concat([t \in 1 .. Len(taken) |->
                      IF t = 1 /\ offset_into_first_range > 0
                      THEN Slice(Concat(taken[t]), offset_into_first_range,
                                 Len(Concat(taken[t])))
                      ELSE Concat(taken[t])])
    IN  IF byte_range # NoRange
        THEN Slice(result, 0, byte_range[2] - byte_range[1] + 1)
        ELSE result

\* download() step 3 and the return
DlAssemble ==
    /\ download.pc = "fetched"
    /\ LET ex == [t \in 1 .. Len(download.terms) |->
                    term_chunks(download.xorb_data, download.terms[t])]
           failed == \E t \in 1 .. Len(ex) : ex[t].error # ""
           taken == [t \in 1 .. Len(ex) |-> ex[t].chunks]
       IN  download' = [download EXCEPT
              !.error = IF failed THEN "ValueError" ELSE "",
              !.taken = IF failed THEN <<>> ELSE taken,
              !.result = IF failed THEN <<>>
                         ELSE assemble(taken, download.offset_into_first_range,
                                       download.byte_range),
              !.pc = "done"]
    /\ UNCHANGED <<sessionVars, chunker, conv, xorbio, creator, shardio, grouping, merkle>>

NextDownload ==
    \/ /\ download.pc = "start"
       /\ \E terms \in DlTermLists, fetch \in DlFetchInfos :
             /\ WellFormedResponse(terms, fetch)
             /\ \E byte_range \in DlByteRanges, offset \in 0 .. MaxDlOffset :
                   DlQuery(byte_range, terms, fetch, offset)
    \/ DlFetch
    \/ DlAssemble

SpecDownload == InitDownload /\ [][NextDownload]_vars

\* the chunks of a term in its xorb: indices [term.start, term.end)
TermChunksInXorb(term) ==
    Slice(DlStore[term.xorb_hash], term.chunk_range.start, term.chunk_range.end)

\* C14: when the FetchInfo of each xorb delivers the records of a chunk range
\* that holds every term of the xorb, download takes for each term exactly the
\* chunks of the xorb with indices [term.start, term.end), whether or not the
\* fetched bytes begin at chunk 0
C14_TermsTakeTheirChunks ==
    download.pc = "done" =>
        /\ download.error = ""
        /\ \A t \in 1 .. Len(download.terms) :
              download.taken[t] = TermChunksInXorb(download.terms[t])

\* the bytes of all terms in order, as download took them
DlStream == Concat([t \in 1 .. Len(download.taken) |-> Concat(download.taken[t])])

\* C15: download returns the concatenated bytes of all terms without their
\* first offset_into_first_range bytes, cut to at most b - a + 1 bytes when a
\* byte range (a, b) was requested, for every offset and for a = 0
C15_OffsetThenTruncate ==
    (download.pc = "done" /\ download.error = "") =>
        download.result =
            LET rest == Slice(DlStream, download.offset_into_first_range, Len(DlStream))
            IN  IF download.byte_range = NoRange THEN rest
                ELSE Slice(rest, 0, download.byte_range[2] - download.byte_range[1] + 1)

\* C16: a XorbBuilder holds at most MAX_XORB_CHUNKS chunks, its current_size is
\* the sum of 8 + stored payload length over its chunks and is at most
\* MAX_XORB_SIZE, serialize_xorb of its xorb stays within the limits, and an
\* add that finds the chunk count at the maximum or the size estimate above
\* the maximum returns False and changes neither chunks nor current_size
C16_BuilderWithinLimits ==
    xorbio.pc # "idle" =>
        /\ Len(xorbio.builder.chunks) <= MAX_XORB_CHUNKS
        /\ xorbio.builder.current_size =
              Sum([i \in 1 .. Len(xorbio.builder.chunks) |->
                     8 + Len(xorbio.builder.chunks[i].compressed_data)])
        /\ xorbio.builder.current_size <= MAX_XORB_SIZE
        /\ xorbio.pc # "building" =>
              /\ xorbio.serialized.error = ""
              /\ Len(xorbio.serialized.bytes) <= MAX_XORB_SIZE
        /\ xorbio.last_add.called =>
              LET before == xorbio.last_add.before
                  full == \/ Len(before.chunks) >= MAX_XORB_CHUNKS
                          \/ before.current_size + 8 + Len(xorbio.last_add.chunk_data)
                                > MAX_XORB_SIZE
              IN  /\ xorbio.last_add.returned = ~full
                  /\ full => xorbio.builder = before
                  /\ ~full => Len(xorbio.builder.chunks) = Len(before.chunks) + 1

\* a builder holding a chunk stored compressed turned down a chunk for its
\* size, with room left in the chunk count, and was serialized afterwards
C16_Witness ==
    /\ xorbio.pc = "serialized"
    /\ xorbio.last_add.called
    /\ ~xorbio.last_add.returned
    /\ Len(xorbio.builder.chunks) = 1
    /\ Len(xorbio.builder.chunks[1].compressed_data) < Len(xorbio.builder.chunks[1].data)
    /\ xorbio.builder = xorbio.last_add.before

(***************************************************************************)
(* hashing.py: _next_merge_cut on a list of entries, and                   *)
(* compute_merkle_root on it, one level of the tree at a time.             *)
(***************************************************************************)
MaxMerkleEntries == 11

\* leaf entries: one whose hash tail is divisible by MEAN_BRANCHING_FACTOR
\* (size 1) and one whose hash tail is not (size 2)
MerkleLeaves ==
    { [hash |-> compute_chunk_hash(<<1>>), size |-> 1],
      [hash |-> compute_chunk_hash(<<0>>), size |-> 2] }

MerkleInputs == UNION { [1 .. n -> MerkleLeaves] : n \in 0 .. MaxMerkleEntries }

InitMerkle ==
    /\ SessionUnused
    /\ chunker = ChunkerIdle
    /\ conv = ConvIdle
    /\ xorbio = XorbioIdle
    /\ creator = [pc |-> "idle"]
    /\ shardio = [pc |-> "idle"]
    /\ grouping = [pc |-> "idle"]
    /\ download = [pc |-> "idle"]
    /\ \E entries \in MerkleInputs :
          merkle = [pc |-> "input", entries |-> entries, cut |-> 0, hv |-> <<>>,
                    prev |-> <<>>, cuts |-> <<>>, root |-> ZERO_HASH]

\* cut = _next_merge_cut(entries)
MkCut ==
    /\ merkle.pc = "input"
    /\ merkle' = [merkle EXCEPT !.cut = next_merge_cut(merkle.entries), !.pc = "cut"]
    /\ UNCHANGED <<sessionVars, chunker, conv, xorbio, creator, shardio, grouping, download>>

\* compute_merkle_root(entries) up to the outer loop
MkStart ==
    /\ merkle.pc = "input"
    /\ merkle' = IF Len(merkle.entries) = 0
                 THEN [merkle EXCEPT !.root = ZERO_HASH, !.pc = "done"]
                 ELSE [merkle EXCEPT !.hv = merkle.entries, !.pc = "reducing"]
    /\ UNCHANGED <<sessionVars, chunker, conv, xorbio, creator, shardio, grouping, download>>

\* one pass of the outer loop: hv = new_hv
MkLevel ==
    /\ merkle.pc = "reducing"
    /\ Len(merkle.hv) > 1
    /\ merkle' = [merkle EXCEPT
          !.prev = merkle.hv,
          !.cuts = merkle_level_cuts(merkle.hv, 0, <<>>),
          !.hv = merkle_level(merkle.hv, 0, <<>>)]
    /\ UNCHANGED <<sessionVars, chunker, conv, xorbio, creator, shardio, grouping, download>>

\* return hv[0][0]
MkReturn ==
    /\ merkle.pc = "reducing"
    /\ ~(Len(merkle.hv) > 1)
    /\ merkle' = [merkle EXCEPT !.root = merkle.hv[1].hash, !.pc = "done"]
    /\ UNCHANGED <<sessionVars, chunker, conv, xorbio, creator, shardio, grouping, download>>

NextMerkle == MkCut \/ MkStart \/ MkLevel \/ MkReturn

SpecMerkle == InitMerkle /\ [][NextMerkle]_vars

\* C17: at every level of compute_merkle_root on two or more entries, every
\* merged group, the last one of the level included, has between MIN_CHILDREN
\* and MAX_CHILDREN children
C17_GroupsOfTwoToNine ==
    \A g \in 1 .. Len(merkle.cuts) :
        MIN_CHILDREN <= merkle.cuts[g] /\ merkle.cuts[g] <= MAX_CHILDREN

\* the indices i with 1 <= i < min(MAX_CHILDREN, n) whose entry has a hash tail
\* divisible by MEAN_BRANCHING_FACTOR
CutCandidates(entries) ==
    { i \in 1 .. (Min(MAX_CHILDREN, Len(entries)) - 1) :
        hash_tail_u64(entries[i + 1].hash) % MEAN_BRANCHING_FACTOR = 0 }

\* C18: _next_merge_cut returns n for n <= 2; for n >= 3 it returns i + 1 for
\* the smallest i with 1 <= i < min(9, n) whose hash tail is divisible by 4,
\* and min(9, n) when there is none; entries[0] has no influence on the cut
C18_CutIsFirstCandidatePlusOne ==
    merkle.pc = "cut" =>
        LET n == Len(merkle.entries)
            c == CutCandidates(merkle.entries)
        IN  /\ n <= 2 => merkle.cut = n
            /\ (n >= 3 /\ c # {}) =>
                  merkle.cut = 1 + CHOOSE i \in c : \A j \in c : i <= j
            /\ (n >= 3 /\ c = {}) => merkle.cut = Min(MAX_CHILDREN, n)
            /\ n >= 1 =>
                  \A e \in MerkleLeaves :
                      next_merge_cut([merkle.entries EXCEPT ![1] = e]) = merkle.cut

\* a list longer than MAX_CHILDREN whose first entry has a divisible hash tail
\* and whose first candidate is index 3 was cut after 4 entries
C18_Witness ==
    /\ merkle.pc = "cut"
    /\ Len(merkle.entries) > MAX_CHILDREN
    /\ hash_tail_u64(merkle.entries[1].hash) % MEAN_BRANCHING_FACTOR = 0
    /\ CutCandidates(merkle.entries) # {}
    /\ \A i \in CutCandidates(merkle.entries) : i >= 3
    /\ merkle.cut = 4

MerkleSizes(hv) == Sum([i \in 1 .. Len(hv) |-> hv[i].size])

\* C19: compute_merkle_root comes to an end: every pass of the inner loop
\* advances by at least one entry and every level has fewer entries than the
\* one before; the sum of the sizes is the same at every level; the root of no
\* entry is 32 zero bytes and the root of one entry is the hash of that entry
C19_MerkleRootTerminates ==
    /\ merkle.pc = "reducing" =>
          /\ MerkleSizes(merkle.hv) = MerkleSizes(merkle.entries)
          /\ \A g \in 1 .. Len(merkle.cuts) : merkle.cuts[g] >= 1
          /\ merkle.prev # <<>> =>
                /\ Len(merkle.hv) < Len(merkle.prev)
                /\ MerkleSizes(merkle.hv) = MerkleSizes(merkle.prev)
    /\ merkle.pc = "done" =>
          /\ merkle.root = compute_merkle_root(merkle.entries)
          /\ Len(merkle.entries) = 0 => merkle.root = ZERO_HASH
          /\ Len(merkle.entries) = 1 => merkle.root = merkle.entries[1].hash

\* the root of a tree of more than one level was returned
C19_Witness ==
    /\ merkle.pc = "done"
    /\ Len(merkle.entries) = MaxMerkleEntries
    /\ Len(merkle.prev) > 1
    /\ Len(merkle.prev) < Len(merkle.entries)
    /\ MerkleSizes(merkle.prev) = MerkleSizes(merkle.entries)
    /\ merkle.root # ZERO_HASH

(***************************************************************************)
(* The final chunk of chunk_data and chunk_stream.                         *)
(***************************************************************************)
\* the rolling hash after the bytes of data, from h
RECURSIVE GearHashOf(_, _)
GearHashOf(h, data) ==
    IF data = <<>> THEN h ELSE GearHashOf(GearStep(h, Head(data)), Tail(data))

\* the chunk ends at a boundary the chunker declared: a forced one at
\* MAX_CHUNK_SIZE or a natural one, at MIN_CHUNK_SIZE bytes or more
EndsAtBoundary(c) ==
    /\ c.size >= MIN_CHUNK_SIZE
    /\ c.size >= MAX_CHUNK_SIZE \/ BitAnd(GearHashOf(0, c.data), MASK) = 0

\* the last chunk is made of the bytes that remain after the last boundary
HasTrailingChunk(cs) == Len(cs) > 0 /\ ~EndsAtBoundary(cs[Len(cs)])

\* only the last chunk is shorter than MIN_CHUNK_SIZE, and a chunk of trailing
\* bytes has a length in 1 .. longest
FinalChunkRule(cs, longest) ==
    /\ \A i \in 1 .. Len(cs) : cs[i].size < MIN_CHUNK_SIZE => i = Len(cs)
    /\ HasTrailingChunk(cs) =>
          (1 <= cs[Len(cs)].size /\ cs[Len(cs)].size <= longest)

\* C20 as stated: the chunk made of the bytes that remain after the last
\* boundary has a length between 1 and MIN_CHUNK_SIZE - 1, for chunk_data and
\* for chunk_stream, and only a final chunk is shorter than MIN_CHUNK_SIZE
C20_FinalChunkBelowMin ==
    /\ (chunker.pc # "idle" /\ chunker.batch_done) =>
          FinalChunkRule(chunker.batch, MIN_CHUNK_SIZE - 1)
    /\ chunker.pc = "done" => FinalChunkRule(chunker.st.yielded, MIN_CHUNK_SIZE - 1)

\* C20 amended: the chunk made of the bytes that remain after the last boundary
\* has a length between 1 and MAX_CHUNK_SIZE - 1, for chunk_data and for
\* chunk_stream, and only a final chunk is shorter than MIN_CHUNK_SIZE
C20_FinalChunkBelowMax ==
    /\ (chunker.pc # "idle" /\ chunker.batch_done) =>
          FinalChunkRule(chunker.batch, MAX_CHUNK_SIZE - 1)
    /\ chunker.pc = "done" => FinalChunkRule(chunker.st.yielded, MAX_CHUNK_SIZE - 1)

\* after a boundary, both chunkers ended on trailing bytes that are no
\* shorter than MIN_CHUNK_SIZE
C20_Witness ==
    /\ chunker.pc = "done"
    /\ chunker.batch_done
    /\ Len(chunker.batch) >= 2
    /\ HasTrailingChunk(chunker.batch)
    /\ chunker.batch[Len(chunker.batch)].size >= MIN_CHUNK_SIZE
    /\ HasTrailingChunk(chunker.st.yielded)
    /\ chunker.st.yielded[Len(chunker.st.yielded)].size >= MIN_CHUNK_SIZE

(***************************************************************************)
(* XorbCreator (file_to_xorb.py): one creator, a sequence of process_file  *)
(* calls, and build_reconstruction_terms on the results.                   *)
(***************************************************************************)
MaxCreatorCalls == 3

\* the files handed to process_file: A B A, A A C, A B C, B B A, C, the
\* empty file, and 1111 0101 11, whose 4-byte chunks fill a builder by size
CreatorFiles ==
    FileData \cup { <<0, 0, 1, 0, 0, 1, 1>>, <<1, 0, 0, 1, 0, 0, 0, 0>>, <<1, 1>>, <<>>,
                    <<1, 1, 1, 1, 0, 1, 0, 1, 1, 1>> }

\* self.current_builder = None
NoBuilder == [chunks |-> <<>>, current_size |-> -1]

\* XorbCreator.__init__
XorbCreator ==
    [chunk_dedup |-> EmptyDict, xorbs |-> <<>>, current_builder |-> NoBuilder,
     current_chunk_hashes |-> <<>>, current_chunk_sizes |-> <<>>]

new_builder(c) ==
    [c EXCEPT !.current_builder = XorbBuilder,
              !.current_chunk_hashes = <<>>,
              !.current_chunk_sizes = <<>>]

finalize_current_xorb(c) ==
    IF c.current_builder # NoBuilder /\ ~builder_is_empty(c.current_builder)
    THEN LET chunks == c.current_builder.chunks
             xorb_hash == compute_xorb_hash(
                 [i \in 1 .. Len(chunks) |-> chunks[i].chunk_hash],
                 [i \in 1 .. Len(chunks) |-> Len(chunks[i].data)])
         IN  [c EXCEPT
                !.xorbs = Append(@,
                    [xorb |-> [chunks |-> chunks, xorb_hash |-> xorb_hash],
                     serialized |-> serialize_xorb(chunks, COMPRESSION_LZ4).bytes,
                     chunk_hashes |-> c.current_chunk_hashes,
                     chunk_sizes |-> c.current_chunk_sizes]),
                !.current_builder = NoBuilder]
    ELSE [c EXCEPT !.current_builder = NoBuilder]

\* the creator after _add_chunk_to_xorb; the location it returns is
\* add_chunk_location of the creator before the call
add_chunk_to_xorb(c, chunk_bytes, chunk_hash) ==
    LET c1 == IF c.current_builder = NoBuilder THEN new_builder(c) ELSE c
        c2 == IF ~can_add(c1.current_builder, chunk_bytes)
              THEN new_builder(finalize_current_xorb(c1))
              ELSE c1
    IN  [c2 EXCEPT
           !.current_builder = builder_add(@, chunk_bytes, chunk_hash),
           !.current_chunk_hashes = Append(@, chunk_hash),
           !.current_chunk_sizes = Append(@, Len(chunk_bytes))]

\* _add_chunk_to_xorb that takes the location from the creator as it is
\* before a full builder is finalized and replaced
add_chunk_location_stale(c, chunk_bytes, chunk_hash) ==
    [xorb_index |-> Len(c.xorbs),
     chunk_index |-> IF c.current_builder = NoBuilder THEN 0
                     ELSE Len(c.current_chunk_hashes)]

\* the ChunkLocation _add_chunk_to_xorb returns: the index the open builder
\* will have in self.xorbs, and the chunk's index in it
add_chunk_location(c, chunk_bytes, chunk_hash) ==
    LET after == add_chunk_to_xorb(c, chunk_bytes, chunk_hash)
    IN  [xorb_index |-> Len(after.xorbs),
         chunk_index |-> Len(after.current_chunk_hashes) - 1]

\* the for loop of process_file over the chunks of the stream
RECURSIVE process_file_loop(_, _, _)
process_file_loop(c, chunks, chunk_locations) ==
    IF chunks = <<>> THEN [creator |-> c, chunk_locations |-> chunk_locations]
    ELSE LET chunk == Head(chunks)
             chunk_hash == compute_chunk_hash(chunk.data)
         IN  IF chunk_hash \in DOMAIN c.chunk_dedup
             THEN process_file_loop(c, Tail(chunks),
                      Append(chunk_locations, c.chunk_dedup[chunk_hash]))
             ELSE LET location == add_chunk_location(c, chunk.data, chunk_hash)
                      c1 == add_chunk_to_xorb(c, chunk.data, chunk_hash)
                  IN  process_file_loop(
                          [c1 EXCEPT !.chunk_dedup = (chunk_hash :> location) @@ @],
                          Tail(chunks), Append(chunk_locations, location))

\* process_file: the creator it leaves and the FileProcessingResult it
\* returns (result.xorbs is the creator's own list)
process_file(c, data) ==
    LET chunks == chunk_stream_final(chunk_stream_buffer(StreamStart, data)).yielded
        loop == process_file_loop(c, chunks, <<>>)
        all_chunk_hashes == [i \in 1 .. Len(chunks) |-> compute_chunk_hash(chunks[i].data)]
        all_chunk_sizes == [i \in 1 .. Len(chunks) |-> chunks[i].size]
    IN  [creator |-> finalize_current_xorb(loop.creator),
         result |-> [data |-> data,
                     chunk_hashes |-> all_chunk_hashes,
                     chunk_sizes |-> all_chunk_sizes,
                     file_hash |-> compute_file_hash(all_chunk_hashes, all_chunk_sizes),
                     file_size |-> Len(data),
                     chunk_count |-> Len(chunks),
                     chunk_locations |-> loop.chunk_locations,
                     built |-> FALSE, terms |-> <<>>,
                     verification_hashes |-> <<>>]]

\* build_reconstruction_terms that extends the open term on the xorb alone,
\* without asking that the chunk index continues it
RECURSIVE reconstruction_terms_loop_same_xorb(_, _, _, _)
reconstruction_terms_loop_same_xorb(xs, locs, cur, terms) ==
    LET closed == FileDataSequenceEntry(xs[cur[1] + 1].xorb.xorb_hash,
                                        cur[4], cur[2], cur[3])
    IN  IF locs = <<>> THEN Append(terms, closed)
        ELSE LET loc == Head(locs)
                 xorb_info == xs[loc.xorb_index + 1]
             IN  IF loc.xorb_index = cur[1]
                 THEN reconstruction_terms_loop_same_xorb(xs, Tail(locs),
                          <<cur[1], cur[2], cur[3] + 1,
                            cur[4] + xorb_info.chunk_sizes[loc.chunk_index + 1]>>,
                          terms)
                 ELSE reconstruction_terms_loop_same_xorb(xs, Tail(locs),
                          <<loc.xorb_index, loc.chunk_index, loc.chunk_index + 1,
                            xorb_info.chunk_sizes[loc.chunk_index + 1]>>,
                          Append(terms, closed))

\* the second loop of build_reconstruction_terms: cur is the open term as
\* (current_xorb_idx, current_start, current_end, current_bytes)
RECURSIVE reconstruction_terms_loop(_, _, _, _)
reconstruction_terms_loop(xs, locs, cur, terms) ==
    LET closed == FileDataSequenceEntry(xs[cur[1] + 1].xorb.xorb_hash,
                                        cur[4], cur[2], cur[3])
    IN  IF locs = <<>> THEN Append(terms, closed)
        ELSE LET loc == Head(locs)
                 xorb_info == xs[loc.xorb_index + 1]
             IN  IF loc.xorb_index = cur[1] /\ loc.chunk_index = cur[3]
                 THEN reconstruction_terms_loop(xs, Tail(locs),
                          <<cur[1], cur[2], cur[3] + 1,
                            cur[4] + xorb_info.chunk_sizes[loc.chunk_index + 1]>>,
                          terms)
                 ELSE reconstruction_terms_loop(xs, Tail(locs),
                          <<loc.xorb_index, loc.chunk_index, loc.chunk_index + 1,
                            xorb_info.chunk_sizes[loc.chunk_index + 1]>>,
                          Append(terms, closed))

\* the verification hashes of build_reconstruction_terms, one per term
RECURSIVE reconstruction_verification(_, _, _)
reconstruction_verification(all_chunk_hashes, terms, file_chunk_idx) ==
    IF terms = <<>> THEN <<>>
    ELSE LET range_end == file_chunk_idx
                            + (Head(terms).chunk_index_end - Head(terms).chunk_index_start)
         IN  <<compute_verification_hash(all_chunk_hashes, file_chunk_idx, range_end)>>
             \o reconstruction_verification(all_chunk_hashes, Tail(terms), range_end)

build_reconstruction_terms(xs, chunk_locations) ==
    IF chunk_locations = <<>> THEN [terms |-> <<>>, verification_hashes |-> <<>>]
    ELSE LET all_chunk_hashes ==
                 [i \in 1 .. Len(chunk_locations) |->
                    xs[chunk_locations[i].xorb_index + 1]
                        .chunk_hashes[chunk_locations[i].chunk_index + 1]]
             first == chunk_locations[1]
             terms == reconstruction_terms_loop(xs, Tail(chunk_locations),
                          <<first.xorb_index, first.chunk_index, first.chunk_index + 1,
                            xs[first.xorb_index + 1].chunk_sizes[first.chunk_index + 1]>>,
                          <<>>)
         IN  [terms |-> terms,
              verification_hashes |->
                  reconstruction_verification(all_chunk_hashes, terms, 0)]

InitCreator ==
    /\ SessionUnused
    /\ chunker = ChunkerIdle
    /\ conv = ConvIdle
    /\ xorbio = XorbioIdle
    /\ shardio = [pc |-> "idle"]
    /\ grouping = [pc |-> "idle"]
    /\ merkle = [pc |-> "idle"]
    /\ download = [pc |-> "idle"]
    /\ creator = [pc |-> "ready", self |-> XorbCreator, results |-> <<>>]

\* result = creator.process_file(filepath)
CrProcessFile(data) ==
    /\ creator.pc = "ready"
    /\ Len(creator.results) < MaxCreatorCalls
    /\ LET r == process_file(creator.self, data)
       IN  creator' = [creator EXCEPT !.self = r.creator,
                                      !.results = Append(@, r.result)]
    /\ UNCHANGED <<sessionVars, chunker, conv, xorbio, shardio, grouping, merkle, download>>

\* terms, verification_hashes = build_reconstruction_terms(result), for a
\* result returned earlier; result.xorbs is the list the creator appends to
CrBuildTerms(k) ==
    /\ creator.pc = "ready"
    /\ k \in 1 .. Len(creator.results)
    /\ ~creator.results[k].built
    /\ LET b == build_reconstruction_terms(creator.self.xorbs,
                                           creator.results[k].chunk_locations)
       IN  creator' = [creator EXCEPT
              !.results[k].built = TRUE,
              !.results[k].terms = b.terms,
              !.results[k].verification_hashes = b.verification_hashes]
    /\ UNCHANGED <<sessionVars, chunker, conv, xorbio, shardio, grouping, merkle, download>>

NextCreator ==
    \/ \E data \in CreatorFiles : CrProcessFile(data)
    \/ \E k \in 1 .. MaxCreatorCalls : CrBuildTerms(k)

SpecCreator == InitCreator /\ [][NextCreator]_vars

(***************************************************************************)
(* Properties of the reconstruction terms.                                 *)
(***************************************************************************)
\* the number of chunk slots covered by the first n terms
RECURSIVE CoveredBefore(_, _)
CoveredBefore(terms, n) ==
    IF n = 0 THEN 0
    ELSE CoveredBefore(terms, n - 1)
            + (terms[n].chunk_index_end - terms[n].chunk_index_start)

\* terms are the maximal runs of slots (the <<xorb hash, chunk index>> of the
\* file's chunks, in file order), sizes being the sizes of the file's chunks
\* and counts the number of chunks of each xorb
MaximalRuns(terms, slots, sizes, counts, length) ==
    /\ \A t \in 1 .. Len(terms) :
          /\ terms[t].chunk_index_end > terms[t].chunk_index_start
          /\ terms[t].chunk_index_start >= 0
          /\ terms[t].cas_hash \in DOMAIN counts
          /\ terms[t].chunk_index_end <= counts[terms[t].cas_hash]
          /\ terms[t].unpacked_segment_bytes =
                Sum(Slice(sizes, CoveredBefore(terms, t - 1), CoveredBefore(terms, t)))
    /\ Concat([t \in 1 .. Len(terms) |-> TermSlots(terms[t])]) = slots
    /\ \A t \in 1 .. Len(terms) - 1 :
          ~(/\ terms[t + 1].cas_hash = terms[t].cas_hash
            /\ terms[t + 1].chunk_index_start = terms[t].chunk_index_end)
    /\ \A i \in 1 .. Len(slots) - 1 :
          (\E t \in 1 .. Len(terms) :
              CoveredBefore(terms, t - 1) < i /\ i < CoveredBefore(terms, t))
          <=> (slots[i + 1][1] = slots[i][1] /\ slots[i + 1][2] = slots[i][2] + 1)
    /\ Sum([t \in 1 .. Len(terms) |-> terms[t].unpacked_segment_bytes]) = length
    /\ slots = <<>> => terms = <<>>

\* the creator's locations of one result as <<xorb hash, chunk index>> slots
CreatorSlots(r) ==
    [i \in 1 .. Len(r.chunk_locations) |->
        <<creator.self.xorbs[r.chunk_locations[i].xorb_index + 1].xorb.xorb_hash,
          r.chunk_locations[i].chunk_index>>]

CreatorCounts ==
    [h \in {creator.self.xorbs[x].xorb.xorb_hash : x \in 1 .. Len(creator.self.xorbs)} |->
        LET x == CHOOSE x \in 1 .. Len(creator.self.xorbs) :
                    creator.self.xorbs[x].xorb.xorb_hash = h
        IN  Len(creator.self.xorbs[x].chunk_hashes)]

\* the same locations as the session's dictionary chunk hash -> ChunkLocation
CreatorLocations(r) ==
    [h \in Range(r.chunk_hashes) |->
        LET i == CHOOSE i \in 1 .. Len(r.chunk_hashes) : r.chunk_hashes[i] = h
        IN  ChunkLocation(CreatorSlots(r)[i][1], CreatorSlots(r)[i][2],
                          r.chunk_sizes[i], TRUE)]

\* C21: the terms built for a file by build_reconstruction_terms and by
\* _build_file_terms are exactly the maximal runs of the file's chunk
\* locations: every term has chunk_index_end > chunk_index_start inside the
\* chunk count of its xorb, a chunk extends the open term exactly when it is
\* in the same xorb at the term's current end, adjacent terms cannot be
\* merged, unpacked_segment_bytes is the sum of the sizes of the covered file
\* chunks, the sizes of all terms sum to the file length, and a file with no
\* chunks gets no terms.
C21_TermsAreMaximalRuns ==
    creator.pc = "ready" =>
        \A k \in 1 .. Len(creator.results) :
            LET r == creator.results[k]
            IN  r.built =>
                  /\ MaximalRuns(r.terms, CreatorSlots(r), r.chunk_sizes,
                                 CreatorCounts, Len(r.data))
                  /\ MaximalRuns(build_file_terms(FileUploadInfo(r.data),
                                                  CreatorLocations(r)),
                                 CreatorSlots(r), r.chunk_sizes,
                                 CreatorCounts, Len(r.data))

\* terms were built for a file with a repeated chunk that needs three terms,
\* for a file whose chunks all lie in xorbs of earlier files, and for the
\* empty file
C21_Witness ==
    /\ creator.pc = "ready"
    /\ \E k \in 1 .. Len(creator.results) :
          /\ creator.results[k].built
          /\ Len(creator.results[k].terms) >= 3
          /\ \E i, j \in 1 .. creator.results[k].chunk_count :
                i < j /\ creator.results[k].chunk_hashes[i]
                           = creator.results[k].chunk_hashes[j]
    /\ \E k \in 1 .. Len(creator.results) :
          /\ creator.results[k].built
          /\ creator.results[k].chunk_count > 0
          /\ \A i \in 1 .. creator.results[k].chunk_count :
                creator.results[k].chunk_locations[i].xorb_index
                    < Len(creator.self.xorbs) - 1
    /\ \E k \in 1 .. Len(creator.results) :
          creator.results[k].built /\ creator.results[k].chunk_count = 0

\* the same for the FileBlocks of the session's shard, with the locations the
\* session recorded
C21_SessionTermsAreMaximalRuns ==
    pc \in {"shard", "done"} =>
        \A k \in 1 .. Len(files) :
            LET chunks == files[k].chunks
                hs == {local_chunk_locations[chunks[i].hash].xorb_hash :
                          i \in 1 .. Len(chunks)}
            IN  /\ \A h \in hs : CasBlocksOf(h) # {}
                /\ MaximalRuns(shard.file_blocks[k].entries,
                      [i \in 1 .. Len(chunks) |->
                          <<local_chunk_locations[chunks[i].hash].xorb_hash,
                            local_chunk_locations[chunks[i].hash].chunk_index>>],
                      [i \in 1 .. Len(chunks) |-> chunks[i].size],
                      [h \in hs |-> LET b == CHOOSE b \in CasBlocksOf(h) : TRUE
                                    IN  Len(b.entries)],
                      Len(files[k].data))

\* C22: in the shard built by upload() every FileBlock has exactly one
\* verification hash per term, in term order, and each is the
\* VERIFICATION_KEY hash over the chunk hashes of the file's own chunks that
\* the term covers, in file order, for terms of new xorbs and of
\* deduplicated xorbs alike.  Checked in the state in which step 5 has
\* built the shard; the shard is not written afterwards.
C22_VerificationHashPerTerm ==
    pc = "shard" =>
        \A k \in 1 .. Len(files) :
            LET fb == shard.file_blocks[k]
                hs == [i \in 1 .. Len(files[k].chunks) |-> files[k].chunks[i].hash]
            IN  /\ Len(fb.verification_entries) = Len(fb.entries)
                /\ \A t \in 1 .. Len(fb.entries) :
                      fb.verification_entries[t].range_hash =
                          compute_verification_hash(hs,
                              CoveredBefore(fb.entries, t - 1),
                              CoveredBefore(fb.entries, t))

\* the shard of a second session holds a file that repeats a chunk, with a
\* term in a xorb of the first session and a term that does not start at the
\* first chunk of a new xorb
C22_Witness ==
    /\ pc = "shard"
    /\ session = 2
    /\ \E k \in 1 .. Len(files) :
          /\ \E i, j \in 1 .. Len(files[k].chunks) :
                i < j /\ files[k].chunks[i].hash = files[k].chunks[j].hash
          /\ \E t \in 1 .. Len(shard.file_blocks[k].entries) :
                XorbWithHash(xorbs, shard.file_blocks[k].entries[t].cas_hash) = {}
    /\ \E k \in 1 .. Len(files) :
          \E t \in 1 .. Len(shard.file_blocks[k].entries) :
              /\ XorbWithHash(xorbs, shard.file_blocks[k].entries[t].cas_hash) # {}
              /\ shard.file_blocks[k].entries[t].chunk_index_start > 0

\* C23: the shard built by upload() holds exactly one CASBlock per new xorb,
\* in xorb order and with pairwise distinct cas_hash; in each block entry k
\* starts at the sum of the sizes of the entries before it, num_bytes_in_cas
\* is the sum of the entry sizes, num_bytes_on_disk is the length of the
\* serialized xorb, and entry k carries GLOBAL_DEDUP_ELIGIBLE exactly when
\* k = 0 or the hash tail of its chunk hash is divisible by 1024.  Checked
\* in the state in which step 5 has built the shard.
C23_CasBlockPerXorb ==
    pc = "shard" =>
        /\ Len(shard.cas_blocks) = Len(xorbs)
        /\ \A i, j \in 1 .. Len(shard.cas_blocks) :
              i # j => shard.cas_blocks[i].cas_hash # shard.cas_blocks[j].cas_hash
        /\ \A x \in 1 .. Len(shard.cas_blocks) :
              LET b == shard.cas_blocks[x]
                  sizes == [k \in 1 .. Len(b.entries) |-> b.entries[k].unpacked_segment_bytes]
              IN  /\ b.cas_hash = xorbs[x].xorb_hash
                  /\ [k \in 1 .. Len(b.entries) |-> b.entries[k].chunk_hash]
                        = xorbs[x].chunk_hashes
                  /\ sizes = xorbs[x].chunk_sizes
                  /\ \A k \in 1 .. Len(b.entries) :
                        /\ b.entries[k].chunk_byte_range_start = Sum(SubSeq(sizes, 1, k - 1))
                        /\ (CHUNK_FLAG_GLOBAL_DEDUP_ELIGIBLE \subseteq b.entries[k].flags)
                              <=> (k = 1 \/ hash_tail_u64(b.entries[k].chunk_hash) % 1024 = 0)
                  /\ b.num_bytes_in_cas = Sum(sizes)
                  /\ b.num_bytes_on_disk = Len(xorbs[x].serialized_data)
                  /\ b.num_bytes_on_disk = Len(serverXorbs[b.cas_hash])

\* the shard of a session with two new xorbs, one with a second chunk that
\* is eligible by its hash and one with a second chunk that is not
C23_Witness ==
    /\ pc = "shard"
    /\ Len(shard.cas_blocks) >= 2
    /\ \E x \in 1 .. Len(shard.cas_blocks) :
          /\ Len(shard.cas_blocks[x].entries) >= 2
          /\ shard.cas_blocks[x].entries[2].flags # {}
    /\ \E x \in 1 .. Len(shard.cas_blocks) :
          /\ Len(shard.cas_blocks[x].entries) >= 2
          /\ shard.cas_blocks[x].entries[2].flags = {}

(***************************************************************************)
(* The upload session over a larger pool of files: the file C (one chunk)  *)
(* is added to A B A and A A C, so that a session can hold a file whose    *)
(* first chunk occurred earlier as a later chunk of another file, and over *)
(* a server that may answer a dedup query with a keyed shard.              *)
(***************************************************************************)
SingleChunkFile == <<1, 1>>

NextPool ==
    \/ Next
    \/ AddFile(SingleChunkFile)
    \/ \E s \in 1 .. Len(serverShards) : DedupQueryHitKeyed(s)

SpecPool == Init /\ [][NextPool]_vars

\* the distinct chunk hashes of the session's files, in order of first
\* occurrence
DistinctHashes ==
    LET u == unique_chunks(AllFileChunks(files), {}, <<>>)
    IN  [i \in 1 .. Len(u) |-> u[i].hash]

IsFirstChunkOfAFile(h) ==
    \E k \in 1 .. Len(files) : files[k].chunks # <<>> /\ files[k].chunks[1].hash = h

\* the hashes of the dedup queries the session issued, in order
QueryHashes ==
    LET q == SelectSeq(trace, LAMBDA e : e.op = "query_chunk_dedup")
    IN  [i \in 1 .. Len(q) |-> q[i].hash]

\* C24: during the dedup phase a query is issued for a distinct chunk hash
\* exactly when global dedup is enabled, the hash is not located by the
\* session and the chunk is eligible, that is, the first chunk of a file of
\* the session or a hash whose tail is divisible by 1024; each hash is
\* queried at most once, in order of first occurrence, and no query is
\* issued with global dedup disabled.
C24_QueryIffEligible ==
    (pc = "dedup" \/ (pc = "failed" /\ PackedAt = 0)) =>
        LET n == IF pc = "dedup" THEN dedup_i ELSE dedup_i + 1
            Queried(h) == /\ enable_global_dedup
                          /\ h \notin DOMAIN local_chunk_locations
                          /\ (IsFirstChunkOfAFile(h) \/ hash_tail_u64(h) % 1024 = 0)
        IN  QueryHashes = SelectSeq(SubSeq(DistinctHashes, 1, n), Queried)

\* C25: when a dedup query returns a shard whose footer declares a non-zero
\* chunk_hash_key, none of that shard's chunk entries is inserted into the
\* dedup cache.
C25_KeyedShardNotCached ==
    [][(\E s \in 1 .. Len(serverShards) : DedupQueryHitKeyed(s))
          => dedup_cache' = dedup_cache]_vars

\* C26: when the reconstruction response lists several FetchInfo entries for
\* one xorb, download hands the slicer the bytes of all of them, assembled
\* contiguously in chunk order; no fetched range is dropped or replaced by a
\* later one.
C26_AllFetchedRangesKept ==
    download.pc \in {"fetched", "done"} =>
        \A h \in DOMAIN download.xorb_data :
            download.xorb_data[h] =
                Concat([i \in 1 .. Len(download.fetch_info[h]) |->
                          FetchedBytes(h, download.fetch_info[h][i])])

(***************************************************************************)
(* The xorb parsers on damaged input: the serialized bytes of a built xorb *)
(* cut short, or with the version byte of one record changed.              *)
(***************************************************************************)
\* the offset at which record k (from 0) of the serialized xorb starts; for
\* k = number of chunks, the end of the last record
RecordStart(k) ==
    Sum([i \in 1 .. k |-> 8 + Len(xorbio.built[i].compressed_data)])

WithVersion(data, offset, version) ==
    [i \in 1 .. Len(data) |-> IF i = offset + 1 THEN version ELSE data[i]]

\* deserialize_xorb(serialized[:n]) for n < len(serialized)
XbDeserializeTruncated(n) ==
    /\ xorbio.pc = "serialized"
    /\ xorbio.serialized.error = ""
    /\ n < Len(xorbio.serialized.bytes)
    /\ xorbio' = [xorbio EXCEPT
          !.deser = deserialize_xorb(Slice(xorbio.serialized.bytes, 0, n)),
          !.damage = [kind |-> "truncated", parser |-> "deserialize_xorb", at |-> n],
          !.pc = "damaged"]
    /\ UNCHANGED <<sessionVars, chunker, conv, auxVars>>

\* extract_chunk_range(serialized[:n], a, b) for a < b and n before the end
\* of record b - 1
XbExtractTruncated(n, a, b) ==
    /\ xorbio.pc = "serialized"
    /\ xorbio.serialized.error = ""
    /\ a < b
    /\ b <= Len(xorbio.built)
    /\ n < RecordStart(b)
    /\ xorbio' = [xorbio EXCEPT
          !.range = <<a, b>>,
          !.extracted = extract_chunk_range(Slice(xorbio.serialized.bytes, 0, n), a, b),
          !.damage = [kind |-> "truncated", parser |-> "extract_chunk_range", at |-> n],
          !.pc = "damaged"]
    /\ UNCHANGED <<sessionVars, chunker, conv, auxVars>>

\* deserialize_xorb on bytes whose record k carries the version byte v # 0
XbDeserializeBadVersion(k, version) ==
    /\ xorbio.pc = "serialized"
    /\ xorbio.serialized.error = ""
    /\ k < Len(xorbio.built)
    /\ version # 0
    /\ xorbio' = [xorbio EXCEPT
          !.deser = deserialize_xorb(
                        WithVersion(xorbio.serialized.bytes, RecordStart(k), version)),
          !.damage = [kind |-> "version", parser |-> "deserialize_xorb", at |-> k],
          !.pc = "damaged"]
    /\ UNCHANGED <<sessionVars, chunker, conv, auxVars>>

\* extract_chunk_range(data, a, b) on bytes whose record k < b carries the
\* version byte v # 0
XbExtractBadVersion(k, version, a, b) ==
    /\ xorbio.pc = "serialized"
    /\ xorbio.serialized.error = ""
    /\ a < b
    /\ b <= Len(xorbio.built)
    /\ k < b
    /\ version # 0
    /\ xorbio' = [xorbio EXCEPT
          !.range = <<a, b>>,
          !.extracted = extract_chunk_range(
                            WithVersion(xorbio.serialized.bytes, RecordStart(k), version),
                            a, b),
          !.damage = [kind |-> "version", parser |-> "extract_chunk_range", at |-> k],
          !.pc = "damaged"]
    /\ UNCHANGED <<sessionVars, chunker, conv, auxVars>>

NextParse ==
    \/ NextXorb
    \/ /\ xorbio.pc = "serialized"
       /\ \E n \in 0 .. MAX_XORB_SIZE : XbDeserializeTruncated(n)
    \/ /\ xorbio.pc = "serialized"
       /\ \E n \in 0 .. MAX_XORB_SIZE, a \in 0 .. MAX_XORB_CHUNKS, b \in 0 .. MAX_XORB_CHUNKS :
             XbExtractTruncated(n, a, b)
    \/ /\ xorbio.pc = "serialized"
       /\ \E k \in 0 .. MAX_XORB_CHUNKS, version \in 1 .. (BYTE_RADIX - 1) :
             XbDeserializeBadVersion(k, version)
    \/ /\ xorbio.pc = "serialized"
       /\ \E k \in 0 .. MAX_XORB_CHUNKS, version \in 1 .. (BYTE_RADIX - 1),
             a \in 0 .. MAX_XORB_CHUNKS, b \in 0 .. MAX_XORB_CHUNKS :
             XbExtractBadVersion(k, version, a, b)

SpecParse == InitXorb /\ [][NextParse]_vars

\* the input ends inside a header or inside the compressed payload that the
\* header before it declares
RECURSIVE EndsInsideRecord(_, _)
EndsInsideRecord(data, offset) ==
    IF offset >= Len(data) THEN FALSE
    ELSE IF offset + 8 > Len(data) THEN TRUE
    ELSE LET compressed_size == decode_u24_le(Slice(data, offset + 1, offset + 4))
         IN  IF offset + 8 + compressed_size > Len(data) THEN TRUE
             ELSE EndsInsideRecord(data, offset + 8 + compressed_size)

\* C27: the xorb parsers never accept truncated input: for serialized bytes
\* cut short before the end of record b - 1, extract_chunk_range(data, a, b)
\* raises; deserialize_xorb raises for every input that ends inside a header
\* or inside a declared compressed payload; and both raise on a visited
\* record whose version byte is not 0.
C27_TruncatedInputRejected ==
    xorbio.pc = "damaged" =>
        /\ (xorbio.damage.kind = "truncated"
              /\ xorbio.damage.parser = "extract_chunk_range")
              => xorbio.extracted.error # ""
        /\ (xorbio.damage.kind = "truncated"
              /\ xorbio.damage.parser = "deserialize_xorb"
              /\ EndsInsideRecord(Slice(xorbio.serialized.bytes, 0, xorbio.damage.at), 0))
              => xorbio.deser.error # ""
        /\ (xorbio.damage.kind = "version"
              /\ xorbio.damage.parser = "extract_chunk_range")
              => xorbio.extracted.error # ""
        /\ (xorbio.damage.kind = "version"
              /\ xorbio.damage.parser = "deserialize_xorb")
              => xorbio.deser.error # ""

\* a sequence of hashes with every repetition of an earlier hash removed
RECURSIVE KeepFirst(_, _)
KeepFirst(hs, seen) ==
    IF hs = <<>> THEN <<>>
    ELSE IF Head(hs) \in seen THEN KeepFirst(Tail(hs), seen)
    ELSE <<Head(hs)>> \o KeepFirst(Tail(hs), seen \cup {Head(hs)})

\* the chunk hashes of the session's new xorbs, in xorb order and index order
PackedHashes == Concat([x \in 1 .. Len(xorbs) |-> xorbs[x].chunk_hashes])

\* C28: once the pack phase has run, the chunk hashes of the new xorbs, read
\* in xorb order and index order with only the first occurrence of each hash
\* kept, are exactly the chunks not found in the dedup cache, in order of
\* first occurrence over the files in add order; no sealed xorb is empty and
\* no chunk that was in the dedup cache is placed in a new xorb.
C28_PackedChunksAreTheUncached ==
    PackedAt # 0 =>
        /\ KeepFirst(PackedHashes, {})
              = SelectSeq(DistinctHashes, LAMBDA h : h \notin DOMAIN dedup_cache)
        /\ \A x \in 1 .. Len(xorbs) : xorbs[x].chunk_hashes # <<>>
        /\ \A x \in 1 .. Len(xorbs) :
              Range(xorbs[x].chunk_hashes) \cap DOMAIN dedup_cache = {}

\* a second session packed a new xorb while some of its chunks were found in
\* the dedup cache, after a first session whose xorbs repeat a chunk
C28_Witness ==
    /\ PackedAt # 0
    /\ session = 2
    /\ xorbs # <<>>
    /\ \E i \in 1 .. Len(DistinctHashes) : DistinctHashes[i] \in DOMAIN dedup_cache
    /\ \E i \in 1 .. Len(DistinctHashes) : DistinctHashes[i] \notin DOMAIN dedup_cache
    /\ \E b, c \in 1 .. Len(serverShards[1].cas_blocks) :
          /\ b # c
          /\ \E k \in 1 .. Len(serverShards[1].cas_blocks[b].entries),
                m \in 1 .. Len(serverShards[1].cas_blocks[c].entries) :
                serverShards[1].cas_blocks[b].entries[k].chunk_hash
                    = serverShards[1].cas_blocks[c].entries[m].chunk_hash

\* the file hash as a function of the file's bytes alone: the Merkle root
\* over the hashes and sizes of the chunks of chunk_data, salted with zeros
ContentHash(data) ==
    LET cs == chunk_data(data)
    IN  compute_file_hash([i \in 1 .. Len(cs) |-> compute_chunk_hash(cs[i].data)],
                          [i \in 1 .. Len(cs) |-> cs[i].size])

\* C29: the file hashes upload() returns ([f.file_hash for f in self.files])
\* depend only on the contents of the files and the order in which they were
\* added, whatever the dedup endpoint answers and whether global dedup is
\* enabled: one hash per added file, in add order, each equal to the
\* file_hash of that file's FileBlock in the shard.
C29_FileHashesDependOnContent ==
    pc = "done" =>
        /\ Len(shard.file_blocks) = Len(files)
        /\ \A k \in 1 .. Len(files) :
              /\ files[k].file_hash = ContentHash(files[k].data)
              /\ shard.file_blocks[k].file_hash = files[k].file_hash

\* upload() returned for two different files in a second session with global
\* dedup enabled, a dedup query answered with a shard and chunks found in
\* the cache
C29_Witness ==
    /\ pc = "done"
    /\ session = 2
    /\ enable_global_dedup
    /\ Len(files) = 2
    /\ files[1].data # files[2].data
    /\ \E i \in Requests("query_chunk_dedup") : trace[i].status = 200
    /\ \E h \in DOMAIN local_chunk_locations : ~local_chunk_locations[h].is_new

\* the slots <<xorb index, chunk index>> of the creator's xorbs that hold h
CreatorSlotsOf(h) ==
    {<<x, i>> \in (0 .. Len(creator.self.xorbs) - 1) \X (0 .. MAX_XORB_CHUNKS - 1) :
        /\ i < Len(creator.self.xorbs[x + 1].chunk_hashes)
        /\ creator.self.xorbs[x + 1].chunk_hashes[i + 1] = h}

\* C30: after any sequence of process_file calls on one XorbCreator every
\* distinct chunk hash is stored in exactly one xorb at exactly one index,
\* and for every file chunk_locations[i] names a slot of result.xorbs whose
\* chunk hash is the hash of the file's i-th chunk.
C30_CreatorStoresEachChunkOnce ==
    creator.pc = "ready" =>
        /\ \A k \in 1 .. Len(creator.results) :
              LET r == creator.results[k]
              IN  /\ Len(r.chunk_locations) = r.chunk_count
                  /\ \A i \in 1 .. r.chunk_count :
                        /\ Cardinality(CreatorSlotsOf(r.chunk_hashes[i])) = 1
                        /\ CreatorSlotsOf(r.chunk_hashes[i])
                              = {<<r.chunk_locations[i].xorb_index,
                                   r.chunk_locations[i].chunk_index>>}
        /\ \A x \in 1 .. Len(creator.self.xorbs) :
              LET info == creator.self.xorbs[x]
              IN  /\ info.chunk_hashes # <<>>
                  /\ Len(info.xorb.chunks) = Len(info.chunk_hashes)
                  /\ \A i \in 1 .. Len(info.chunk_hashes) :
                        /\ info.xorb.chunks[i].chunk_hash = info.chunk_hashes[i]
                        /\ compute_chunk_hash(info.xorb.chunks[i].data) = info.chunk_hashes[i]
                        /\ Len(info.xorb.chunks[i].data) = info.chunk_sizes[i]
                        /\ \E k \in 1 .. Len(creator.results) :
                              info.chunk_hashes[i] \in Range(creator.results[k].chunk_hashes)

\* chunk i of result k is the first occurrence of its hash on this creator
FirstStored(k, i) ==
    /\ \A m \in 1 .. k - 1 :
          creator.results[k].chunk_hashes[i] \notin Range(creator.results[m].chunk_hashes)
    /\ \A j \in 1 .. i - 1 :
          creator.results[k].chunk_hashes[j] # creator.results[k].chunk_hashes[i]

\* one creator processed a file that repeats a chunk it stores for the first
\* time, before its builder was finalized; a file with a new chunk stored at
\* index 0 of the next xorb because the builder was full; and a file with a
\* chunk of an earlier file
C30_Witness ==
    /\ creator.pc = "ready"
    /\ \E k \in 1 .. Len(creator.results) :
          \E i \in 1 .. creator.results[k].chunk_count - 1 :
              /\ FirstStored(k, i)
              /\ creator.results[k].chunk_hashes[i] = creator.results[k].chunk_hashes[i + 1]
    /\ \E k \in 1 .. Len(creator.results) :
          \E i \in 1 .. creator.results[k].chunk_count - 1 :
              /\ FirstStored(k, i)
              /\ FirstStored(k, i + 1)
              /\ creator.results[k].chunk_locations[i + 1].chunk_index = 0
              /\ creator.results[k].chunk_locations[i + 1].xorb_index
                    = creator.results[k].chunk_locations[i].xorb_index + 1
    /\ \E k \in 2 .. Len(creator.results) :
          \E i \in 1 .. creator.results[k].chunk_count :
              creator.results[k].chunk_hashes[i]
                  \in Range(creator.results[k - 1].chunk_hashes)

====
